---- MODULE Spec2Model ----
(***************************************************************************)
(* SGX caching service (scs): the collateral cache, the push / refresh /   *)
(* tcbstatus handlers of resource/platform_ops.go, the fetch-and-cache     *)
(* chain of resource/lazy_cache_ops.go and the TCB comparison.             *)
(*                                                                         *)
(* A handler is a goroutine.  Its suspension points are the upstream HTTP  *)
(* calls and the repository calls; every action below contains at most    *)
(* one repository access, so the interleavings of the actions are the      *)
(* interleavings of the goroutines over the shared database.               *)
(***************************************************************************)
EXTENDS Integers, Sequences, FiniteSets, TLC

(***************************************************************************)
(* Bounds of the model                                                     *)
(***************************************************************************)
NumHandlers == 2      \* goroutines serving requests at the same time
MaxCerts == 2         \* entries of one /pckcerts response array
MaxByte == 2          \* SVN component values 0..MaxByte (comparison model)
MaxSvn == 2           \* PCE-SVN values 0..MaxSvn (comparison model)

(***************************************************************************)
(* Program constants                                                       *)
(***************************************************************************)
MaxTcbLevels == 16        \* constants.MaxTcbLevels
EncPPIDWidth == 768       \* regExMap[EncPPID_Key]
CpuSvnWidth == 32         \* regExMap[CpuSvn_Key]
PceSvnWidth == 4          \* regExMap[PceSvn_Key]
PceIdWidth == 4           \* regExMap[PceId_Key]
QeIdWidth == 32           \* regExMap[QeId_Key]
FmspcWidth == 12          \* regExMap[Fmspc_Key]
StatusOK == 200
StatusCreated == 201
StatusBadRequest == 400
StatusNotFound == 404
StatusInternalServerError == 500

\* compareTcbComponents results: const ( Error = iota; EqualOrGreater; Lower; Undefined )
Error == 0
EqualOrGreater == 1
Lower == 2
Undefined == 3

\* constants.CacheInsert = iota + 1, constants.CacheRefresh
CacheInsert == 1
CacheRefresh == 2

(***************************************************************************)
(* Values                                                                  *)
(***************************************************************************)
Procs == 1..NumHandlers
QeIds == {"q1", "q2"}
Fmspcs == {"f1", "f2"}
CaTypes == {"processor", "platform"}
\* What the program takes for an FMSPC or a CA type: the value of the
\* Sgx-Fmspc or Sgx-Pck-Certificate-Ca-Type header of a /pckcerts response,
\* which is "" when the header is missing
FmspcValues == Fmspcs \cup {""}
CaValues == CaTypes \cup {""}
NoRow == [none |-> TRUE]
NotAvailable == "Not available"

\* An input string: its text (an identity), its length and whether every
\* character is a hex digit -- what the anchored patterns of regExMap read.
Str(t, n, h) == [txt |-> t, len |-> n, hex |-> h]
Empty == Str("", 0, TRUE)

Width(key) ==
    CASE key = "encrypted_ppid" -> EncPPIDWidth
      [] key = "cpu_svn" -> CpuSvnWidth
      [] key = "pce_svn" -> PceSvnWidth
      [] key = "pce_id" -> PceIdWidth
      [] key = "fmspc" -> FmspcWidth
      [] key = "qe_id" -> QeIdWidth

\* the keys of regExMap: those with a pattern ^[0-9a-fA-F]{n}$ and those
\* with a pattern ^(word)$
HexKeys == {"encrypted_ppid", "cpu_svn", "pce_svn", "pce_id", "fmspc", "qe_id"}
WordKeys == {"ca", "type"}
Words(key) ==
    CASE key = "ca" -> {"processor"}
      [] key = "type" -> {"certs"}

\* regExMap[key].MatchString(s)
MatchString(key, s) ==
    IF key \in HexKeys THEN s.hex /\ s.len = Width(key)
    ELSE s.txt \in Words(key)

\* resource/validation.go ValidateInputString, for a key of regExMap or
\* the empty key
validateInputString(key, s) ==
    /\ key # ""
    /\ MatchString(key, s)

\* Request bodies of POST /platforms
ValidBody(q) ==
    [enc_ppid |-> Str("ppid", EncPPIDWidth, TRUE),
     cpu_svn  |-> Str("cpusvn", CpuSvnWidth, TRUE),
     pce_svn  |-> Str("pcesvn", PceSvnWidth, TRUE),
     pce_id   |-> Str("pceid", PceIdWidth, TRUE),
     qe_id    |-> Str(q, QeIdWidth, TRUE),
     manifest |-> Empty]
ShortCpuSvn(q) == [ValidBody(q) EXCEPT !.cpu_svn = Str("cpusvn", CpuSvnWidth - 1, TRUE)]
\* a body with one field that does not match its pattern: one character
\* short, or not hex
BadField(q, field, n, h) == [ValidBody(q) EXCEPT ![field] = Str(ValidBody(q)[field].txt, n, h)]
InvalidBodies ==
    {ShortCpuSvn("q1"),
     BadField("q1", "enc_ppid", EncPPIDWidth + 1, TRUE),
     BadField("q1", "pce_svn", PceSvnWidth, FALSE),
     BadField("q1", "pce_id", PceIdWidth - 1, TRUE),
     BadField("q1", "qe_id", QeIdWidth, FALSE)}
\* a body with a platform manifest in place of the encrypted PPID
ManifestBody(q) == [ValidBody(q) EXCEPT !.enc_ppid = Empty, !.manifest = Str("manifest", 8, TRUE)]
\* a body with the encrypted PPID and a platform manifest
BothBody(q) == [ValidBody(q) EXCEPT !.manifest = Str("manifest", 8, TRUE)]
Bodies == {ValidBody(q) : q \in QeIds} \cup InvalidBodies \cup {ManifestBody("q1")}
SerialBodies == {ValidBody("q1"), ManifestBody("q1")} \cup InvalidBodies

(***************************************************************************)
(* Upstream (Intel PCS) responses.  The PCS is outside the program: every  *)
(* response it can give is an input.                                       *)
(***************************************************************************)
Entry(c, t) == [cert |-> c, tcbm |-> t]
Entries == {Entry(NotAvailable, "t0"), Entry("c1", "t1"), Entry("c2", "t2")}
SeqsUpTo(S, n) == UNION {[1..k -> S] : k \in 0..n}

\* A response: transport error, status code, ContentLength == 0, the body
\* parses as JSON, headers and the decoded body.  A body of no bytes comes
\* with ContentLength 0 when the length is declared, and with ContentLength
\* -1 (length unknown: chunked or close-delimited) when it is not.
Response(e, st, z, j, h, b) ==
    [err |-> e, status |-> st, empty |-> z, json |-> j, hdr |-> h, body |-> b]
NoHdr == [chain |-> "", fmspc |-> "", ca |-> ""]
FailedResponses ==
    {Response(TRUE, 0, TRUE, FALSE, NoHdr, <<>>),
     Response(FALSE, StatusInternalServerError, FALSE, FALSE, NoHdr, <<>>),
     Response(FALSE, StatusOK, TRUE, FALSE, NoHdr, <<>>)}
PckCertsOk(f, c, b) ==
    Response(FALSE, StatusOK, FALSE, TRUE, [chain |-> "chain1", fmspc |-> f, ca |-> c], b)
\* /pckcerts responses with every body of up to MaxCerts entries (one
\* FMSPC, one CA type)
PckCertsResponses ==
    FailedResponses
      \cup {Response(FALSE, StatusOK, FALSE, FALSE, NoHdr, <<>>)}
      \cup {PckCertsOk("f1", "processor", b) : b \in SeqsUpTo(Entries, MaxCerts)}
\* /pckcerts responses with one body (one FMSPC, one CA type)
PckCertsFew ==
    FailedResponses \cup {PckCertsOk("f1", "processor", <<Entry("c1", "t1")>>)}
TcbResponses ==
    FailedResponses
      \cup {Response(FALSE, StatusOK, FALSE, TRUE, [NoHdr EXCEPT !.chain = "tcbchain"], "tcbinfo1")}
CrlResponses ==
    FailedResponses
      \cup {Response(FALSE, StatusOK, FALSE, TRUE, [NoHdr EXCEPT !.chain = "crlchain"], "crl1")}
QeResponses ==
    FailedResponses
      \cup {Response(FALSE, StatusOK, FALSE, TRUE, [NoHdr EXCEPT !.chain = "qechain"], "qeinfo1")}
\* a 200 response of unknown length whose body has no bytes, with headers h
NoBytes(h) == Response(FALSE, StatusOK, FALSE, FALSE, h, "")
\* a 200 response with body b and without the issuer chain header
NoChain(b) == Response(FALSE, StatusOK, FALSE, TRUE, NoHdr, b)
\* the responses of the four endpoints of the PCS: with declared lengths
\* and all headers, and with bodies of unknown length and headers missing
Upstream(pckcerts) ==
    [pckcerts |-> pckcerts, tcb |-> TcbResponses, pckcrl |-> CrlResponses, qe |-> QeResponses]
UpstreamAny ==
    [pckcerts |-> PckCertsFew
                    \cup {Response(FALSE, StatusOK, FALSE, FALSE, NoHdr, <<>>),
                          Response(FALSE, StatusOK, FALSE, TRUE,
                                   [chain |-> "", fmspc |-> "f1", ca |-> "processor"],
                                   <<Entry("c1", "t1")>>),
                          Response(FALSE, StatusOK, FALSE, TRUE,
                                   [chain |-> "chain2", fmspc |-> "f1", ca |-> "processor"],
                                   <<Entry("c1", "t1")>>),
                          Response(FALSE, StatusOK, FALSE, TRUE,
                                   [chain |-> "chain1", fmspc |-> "", ca |-> ""],
                                   <<Entry("c1", "t1")>>)},
     tcb |-> TcbResponses \cup {NoBytes([NoHdr EXCEPT !.chain = "tcbchain"]), NoChain("tcbinfo1")},
     pckcrl |-> CrlResponses \cup {NoBytes([NoHdr EXCEPT !.chain = "crlchain"]), NoChain("crl1")},
     qe |-> QeResponses \cup {NoBytes([NoHdr EXCEPT !.chain = "qechain"]), NoChain("qeinfo1")}]

\* What the PCK certificate selection library (C++, external) hands back:
\* its return code and the index it stored.  Code 0 comes with an index
\* into the n certificates it was given.
SelectorCodes == 0..12
LibOutcomes(n, codes) ==
    {[ret |-> 0, idx |-> i] : i \in 0..(n - 1)}
      \cup {[ret |-> c, idx |-> 0] : c \in codes \ {0}}

(***************************************************************************)
(* fetchPckCertInfo and its parts                                          *)
(***************************************************************************)
Ok(v) == [err |-> "", panic |-> FALSE, val |-> v]
Err(e) == [err |-> e, panic |-> FALSE, val |-> NoRow]
Panic == [err |-> "panic", panic |-> TRUE, val |-> NoRow]

\* url.QueryUnescape of a certificate of the response
QueryUnescape(c) ==
    CASE c = "c1" -> "pem1"
      [] c = "c2" -> "pem2"
      [] OTHER -> ""

\* The loop of fetchPckCertInfo over pckCerts[i..]: entries whose cert is
\* "Not available" are skipped, the others are appended to both lists.
RECURSIVE FilterLoop(_, _, _, _)
FilterLoop(pckCerts, i, pckCertList, tcbmList) ==
    IF i > Len(pckCerts)
    THEN [PckCerts |-> pckCertList, Tcbms |-> tcbmList]
    ELSE IF pckCerts[i].cert # NotAvailable
         THEN FilterLoop(pckCerts, i + 1,
                         Append(pckCertList, QueryUnescape(pckCerts[i].cert)),
                         Append(tcbmList, pckCerts[i].tcbm))
         ELSE FilterLoop(pckCerts, i + 1, pckCertList, tcbmList)

\* fetchPckCertInfo keeping the tcbm of every entry of the response
PckCertsParse_TcbmsUnfiltered(platformInfo, resp) ==
    IF platformInfo.Encppid = "" /\ platformInfo.Manifest = "" THEN Err("invalid request")
    ELSE IF resp.err THEN Err("upstream")
    ELSE IF resp.status # StatusOK THEN Err("upstream")
    ELSE IF resp.empty THEN Err("upstream")
    ELSE IF ~resp.json THEN Err("json")
    ELSE LET l == FilterLoop(resp.body, 1, <<>>, <<>>)
         IN Ok([pckCertInfo |-> [QeID |-> platformInfo.QeID,
                                 PceID |-> platformInfo.PceID,
                                 Fmspc |-> resp.hdr.fmspc,
                                 PckCerts |-> l.PckCerts,
                                 Tcbms |-> [i \in 1..Len(resp.body) |-> resp.body[i].tcbm],
                                 CertIndex |-> 0],
                pckCertChain |-> resp.hdr.chain,
                ca |-> resp.hdr.ca])

\* fetchPckCertInfo up to the call of fetchFmspcTcbInfo: the request guard,
\* the response checks, the headers and the filtered lists.
PckCertsParse(platformInfo, resp) ==
    IF platformInfo.Encppid = "" /\ platformInfo.Manifest = "" THEN Err("invalid request")
    ELSE IF resp.err THEN Err("upstream")
    ELSE IF resp.status # StatusOK THEN Err("upstream")
    ELSE IF resp.empty THEN Err("upstream")
    ELSE IF ~resp.json THEN Err("json")
    ELSE LET l == FilterLoop(resp.body, 1, <<>>, <<>>)
         IN Ok([pckCertInfo |-> [QeID |-> platformInfo.QeID,
                                 PceID |-> platformInfo.PceID,
                                 Fmspc |-> resp.hdr.fmspc,
                                 PckCerts |-> l.PckCerts,
                                 Tcbms |-> l.Tcbms,
                                 CertIndex |-> 0],
                pckCertChain |-> resp.hdr.chain,
                ca |-> resp.hdr.ca])

\* fetchFmspcTcbInfo
fetchFmspcTcbInfo(fmspc, resp) ==
    IF resp.err THEN Err("upstream")
    ELSE IF resp.status # StatusOK THEN Err("upstream")
    ELSE IF resp.empty THEN Err("upstream")
    ELSE Ok([Fmspc |-> fmspc, TcbInfoIssuerChain |-> resp.hdr.chain, TcbInfo |-> resp.body])

\* fetchPckCrlInfo
fetchPckCrlInfo(ca, resp) ==
    IF resp.err THEN Err("upstream")
    ELSE IF resp.status # StatusOK THEN Err("upstream")
    ELSE IF resp.empty THEN Err("upstream")
    ELSE Ok([Ca |-> ca, PckCrlCertChain |-> resp.hdr.chain, PckCrl |-> resp.body])

\* fetchQeIdentityInfo
fetchQeIdentityInfo(resp) ==
    IF resp.err THEN Err("upstream")
    ELSE IF resp.status # StatusOK THEN Err("upstream")
    ELSE IF resp.empty THEN Err("upstream")
    ELSE Ok([QeIssuerChain |-> resp.hdr.chain, QeInfo |-> resp.body])

\* getBestPckCert handing back a 1-based index
getBestPckCert_IndexFromOne(platformInfo, pckCerts, lib) ==
    IF Len(pckCerts) = 0 THEN Panic
    ELSE IF lib.ret # 0 THEN Err("selection")
    ELSE Ok((lib.idx + 1) % 256)

\* getBestPckCert without the test of the library's return code
getBestPckCert_RetIgnored(platformInfo, pckCerts, lib) ==
    IF Len(pckCerts) = 0 THEN Panic
    ELSE Ok(lib.idx % 256)

\* getBestPckCert: &certs[0] of an empty slice is an index out of range
\* (a run-time panic); otherwise the library is called, a non-zero return
\* is an error and the index comes back as uint8(certIdx).
getBestPckCert(platformInfo, pckCerts, lib) ==
    IF Len(pckCerts) = 0 THEN Panic
    ELSE IF lib.ret # 0 THEN Err("selection")
    ELSE Ok(lib.idx % 256)

(***************************************************************************)
(* State: the seven tables and, per handler goroutine, where it is and     *)
(* what it holds.                                                          *)
(***************************************************************************)
VARIABLES
    platform,       \* platforms table, by QeID
    platformTcb,    \* platform_tcbs table, by QeID
    pckCertChain,   \* pck_cert_chains table, rows in id order
    pckCert,        \* pck_certs table, by QeID
    pckCrl,         \* pck_crls table, by Ca
    fmspcTcbInfo,   \* fmspc_tcb_infos table, by Fmspc
    qeIdentity,     \* qe_identities table, rows in id order
    pc,             \* per handler: the call it is suspended in
    loc,            \* per handler: its local variables
    resp,           \* per handler: status code written by its last request (0: none)
    err,            \* per handler: error its last request ended with ("": none)
    wrote,          \* per handler: tables its current/last request has written
    called,         \* per handler: upstream endpoints its current/last request has called
    cmpIn,          \* arguments of a call of compareTcbComponents
    cmpOut,         \* its result (-1: not called)
    tcbReq,         \* a GET /tcbstatus request
    tcbResp,        \* its response (NoRow: not answered)
    valIn,          \* arguments of a call of ValidateInputString
    valOut,         \* its result (NoRow: not called)
    provIn,         \* an upstream GET: the endpoint and what the network does to each attempt
    provOut,        \* its course: attempts made, and the result once it has returned
    setupIn,        \* a run of the Database setup task: flags, environment, the database
    setupOut,       \* the configuration, and the result of Run (NoRow: Run has not returned)
    now,            \* time.Now() of the row whose time stamps are followed (0: none followed)
    stamped,        \* that row: its entity, its CreatedTime and UpdatedTime, and its writes
    qeIn,           \* a call of GetLazyCacheQEIdentityInfo: what the PCS and the repository do
    qeOut           \* its outcome (NoRow: it has not ended)

db == <<platform, platformTcb, pckCertChain, pckCert, pckCrl, fmspcTcbInfo, qeIdentity>>
vars == <<platform, platformTcb, pckCertChain, pckCert, pckCrl, fmspcTcbInfo, qeIdentity,
          pc, loc, resp, err, wrote, called, cmpIn, cmpOut, tcbReq, tcbResp, valIn, valOut,
          provIn, provOut, setupIn, setupOut, now, stamped, qeIn, qeOut>>
\* the variables of the calls checked on their own
aux == <<cmpIn, cmpOut, tcbReq, tcbResp, valIn, valOut, provIn, provOut, setupIn, setupOut,
         now, stamped, qeIn, qeOut>>

NoLoc == [op |-> "", qe |-> "", platformInfo |-> NoRow, pckCertInfo |-> NoRow,
          fmspcTcb |-> NoRow, pckCertChain |-> "", ca |-> "", fmspc |-> "",
          fetched |-> NoRow, walk |-> <<>>, ret |-> 0, pckCerts |-> <<>>,
          variant |-> ""]

InitHandlers ==
    /\ pc = [p \in Procs |-> "idle"]
    /\ loc = [p \in Procs |-> NoLoc]
    /\ resp = [p \in Procs |-> 0]
    /\ err = [p \in Procs |-> ""]
    /\ wrote = [p \in Procs |-> {}]
    /\ called = [p \in Procs |-> {}]
InitCache ==
    /\ platform = [q \in QeIds |-> NoRow]
    /\ platformTcb = [q \in QeIds |-> NoRow]
    /\ pckCertChain = <<>>
    /\ pckCert = [q \in QeIds |-> NoRow]
    /\ pckCrl = [c \in CaValues |-> NoRow]
    /\ fmspcTcbInfo = [f \in FmspcValues |-> NoRow]
    /\ qeIdentity = <<>>
    /\ InitHandlers

NoCall == [pckComponents |-> <<>>, pckpcesvn |-> 0, tcbComponents |-> <<>>, tcbpcesvn |-> 0]
NoRequest == [hasQuery |-> FALSE, qeid |-> Empty]
NoInput == [key |-> "", inString |-> Empty]
InitCmpNone == cmpIn = NoCall /\ cmpOut = -1
InitTcbNone == tcbReq = NoRequest /\ tcbResp = NoRow
InitValNone == valIn = NoInput /\ valOut = NoRow
InitOpsNone ==
    /\ provIn = NoRow /\ provOut = NoRow /\ setupIn = NoRow /\ setupOut = NoRow
    /\ now = 0 /\ stamped = NoRow /\ qeIn = NoRow /\ qeOut = NoRow
Init == InitCache /\ InitCmpNone /\ InitTcbNone /\ InitValNone /\ InitOpsNone

(***************************************************************************)
(* Helpers shared by the handlers                                          *)
(***************************************************************************)
\* The handler returns: status code and error of the request.  Its locals
\* are gone; the kind of the request, its qe_id and the last return code of
\* the selection library stay on record.
Return(p, l, code, e) ==
    /\ pc' = [pc EXCEPT ![p] = "idle"]
    /\ resp' = [resp EXCEPT ![p] = code]
    /\ err' = [err EXCEPT ![p] = e]
    /\ loc' = [loc EXCEPT ![p] = [NoLoc EXCEPT !.op = l.op, !.qe = l.qe, !.ret = l.ret]]

\* Status an error ends with: pushPlatformInfo answers 500, refreshPlatformInfo
\* answers 404 for every error of its walks, the timer only returns the error.
FailStatus(op) ==
    IF op = "push" THEN StatusInternalServerError
    ELSE IF op = "refresh" THEN StatusNotFound
    ELSE 0

Fail(p, l, e) == Return(p, l, FailStatus(l.op), e)

\* A run-time panic ends the goroutine without a response.
Panicked(p, l) == Return(p, l, 0, "panic")

\* The handler goes on to its next call, with locals l.
Goto(p, label, l) ==
    /\ pc' = [pc EXCEPT ![p] = label]
    /\ loc' = [loc EXCEPT ![p] = l]
    /\ resp' = [resp EXCEPT ![p] = 0]
    /\ err' = [err EXCEPT ![p] = ""]

Called(p, S) == called' = [called EXCEPT ![p] = S]
Wrote(p, table) == wrote' = [wrote EXCEPT ![p] = @ \cup {table}]

\* fetchPckCertInfo asking with the encrypted PPID whenever there is one
SendPckCerts_PpidFirst(p, l, c) ==
    IF l.platformInfo.Encppid = "" /\ l.platformInfo.Manifest = ""
    THEN Fail(p, [l EXCEPT !.variant = ""], "invalid request") /\ Called(p, c)
    ELSE /\ Goto(p, "pckcerts",
                 [l EXCEPT !.variant = IF l.platformInfo.Encppid # ""
                                       THEN "encrypted_ppid" ELSE "platform_manifest"])
         /\ Called(p, c \cup {"pckcerts"})

\* fetchPckCertInfo up to the upstream call: without encrypted PPID and
\* manifest it returns an error, else GET /pckcerts is sent, by the
\* manifest when there is one and by the encrypted PPID otherwise
\* (variant).  c: the endpoints the request has called so far.
SendPckCerts(p, l, c) ==
    IF l.platformInfo.Encppid = "" /\ l.platformInfo.Manifest = ""
    THEN Fail(p, [l EXCEPT !.variant = ""], "invalid request") /\ Called(p, c)
    ELSE /\ Goto(p, "pckcerts",
                 [l EXCEPT !.variant = IF l.platformInfo.Manifest # ""
                                       THEN "platform_manifest" ELSE "encrypted_ppid"])
         /\ Called(p, c \cup {"pckcerts"})

\* constants.CacheInsert for a push, constants.CacheRefresh for the refresh walks
CacheTypeOf(op) == IF op = "push" THEN CacheInsert ELSE CacheRefresh

\* gorm Create fails on an existing primary key; gorm Save writes the row
\* whether or not it exists.  dbok = FALSE is a failing statement.
CanWrite(table, key, cacheType, dbok) ==
    /\ dbok
    /\ cacheType = CacheInsert => table[key] = NoRow
WriteError(table, key, cacheType, dbok) ==
    IF dbok /\ cacheType = CacheInsert /\ table[key] # NoRow THEN "conflict" ELSE "storage"

(***************************************************************************)
(* POST /platforms: pushPlatformInfo                                       *)
(***************************************************************************)
\* types.Platform built from the request body
PlatformOf(body) ==
    [QeID |-> body.qe_id.txt, Encppid |-> body.enc_ppid.txt, Manifest |-> body.manifest.txt,
     CPUSvn |-> body.cpu_svn.txt, PceSvn |-> body.pce_svn.txt, PceID |-> body.pce_id.txt,
     Fmspc |-> ""]

pushValid(body) ==
    /\ validateInputString("encrypted_ppid", body.enc_ppid)
    /\ validateInputString("cpu_svn", body.cpu_svn)
    /\ validateInputString("pce_svn", body.pce_svn)
    /\ validateInputString("pce_id", body.pce_id)
    /\ validateInputString("qe_id", body.qe_id)

\* pushPlatformInfo without the Retrieve of the Platform row
pushPlatformInfo_NoRetrieve(p, body) ==
    /\ pc[p] = "idle"
    /\ wrote' = [wrote EXCEPT ![p] = {}]
    /\ UNCHANGED db
    /\ LET l == [NoLoc EXCEPT !.op = "push", !.qe = body.qe_id.txt]
       IN IF ~pushValid(body)
          THEN Return(p, l, StatusBadRequest, "invalid query param data") /\ Called(p, {})
          ELSE SendPckCerts(p, [l EXCEPT !.platformInfo = PlatformOf(body)], {})

\* pushPlatformInfo with the Retrieve ahead of the validation
pushPlatformInfo_RetrieveFirst(p, body) ==
    /\ pc[p] = "idle"
    /\ wrote' = [wrote EXCEPT ![p] = {}]
    /\ UNCHANGED db
    /\ LET l == [NoLoc EXCEPT !.op = "push", !.qe = body.qe_id.txt]
       IN IF platform[body.qe_id.txt] # NoRow
          THEN Return(p, l, StatusOK, "") /\ Called(p, {})
          ELSE IF ~pushValid(body)
          THEN Return(p, l, StatusBadRequest, "invalid query param data") /\ Called(p, {})
          ELSE SendPckCerts(p, [l EXCEPT !.platformInfo = PlatformOf(body)], {})

\* The handler up to its first upstream call: validation, the Retrieve of
\* the Platform row, and the start of getLazyCachePckCert.
pushPlatformInfo(p, body) ==
    /\ pc[p] = "idle"
    /\ wrote' = [wrote EXCEPT ![p] = {}]
    /\ UNCHANGED db
    /\ LET l == [NoLoc EXCEPT !.op = "push", !.qe = body.qe_id.txt]
       IN IF ~pushValid(body)
          THEN Return(p, l, StatusBadRequest, "invalid query param data") /\ Called(p, {})
          ELSE IF platform[body.qe_id.txt] # NoRow
          THEN Return(p, l, StatusOK, "") /\ Called(p, {})
          ELSE SendPckCerts(p, [l EXCEPT !.platformInfo = PlatformOf(body)], {})

\* The steps of the fetch-and-cache chain after the fetch, in the order of
\* GetLazyCachePlatformInfo.
GetLazyCachePlatformInfo == <<"cachePlatformInfo", "cachePckCertChainInfo", "cachePckCertInfo">>
\* The chain of a push: the PlatformTcb row is written last.
getLazyCachePckCert == GetLazyCachePlatformInfo \o <<"cachePlatformTcbInfo">>

StepIndex(step) == CHOOSE i \in 1..Len(getLazyCachePckCert) : getLazyCachePckCert[i] = step
\* where a push goes after a step of the chain
StepAfter(step) ==
    IF StepIndex(step) < Len(getLazyCachePckCert)
    THEN getLazyCachePckCert[StepIndex(step) + 1]
    ELSE "pushPckCrl"

\* fetchPckCertInfo, the /pckcerts response arrives: on success GET /tcb
\* for the FMSPC of the response is sent (fetchFmspcTcbInfo).
fetchPckCertInfoRecv(p, r) ==
    /\ pc[p] = "pckcerts"
    /\ UNCHANGED <<db, wrote>>
    /\ LET res == PckCertsParse(loc[p].platformInfo, r)
       IN IF res.err # ""
          THEN Fail(p, loc[p], res.err) /\ UNCHANGED called
          ELSE /\ Goto(p, "tcb", [loc[p] EXCEPT !.pckCertInfo = res.val.pckCertInfo,
                                                !.pckCertChain = res.val.pckCertChain,
                                                !.ca = res.val.ca,
                                                !.pckCerts = r.body])
               /\ Called(p, called[p] \cup {"tcb"})

\* fetchPckCertInfo, the /tcb response arrives: getBestPckCert picks the
\* certificate index, fetchPckCertInfo returns (its array pckCerts of the
\* /pckcerts response is gone) and the caller goes on (the chain of a push,
\* the Update of a refresh walk).
fetchPckCertInfoSelect(p, r, codes) ==
    /\ pc[p] = "tcb"
    /\ UNCHANGED <<db, wrote, called>>
    /\ LET t == fetchFmspcTcbInfo(loc[p].pckCertInfo.Fmspc, r)
       IN IF t.err # ""
          THEN Fail(p, loc[p], t.err)
          ELSE \E lib \in LibOutcomes(Len(loc[p].pckCertInfo.PckCerts), codes) :
                 LET b == getBestPckCert(loc[p].platformInfo, loc[p].pckCertInfo.PckCerts, lib)
                     l == [loc[p] EXCEPT !.ret = IF b.panic THEN 0 ELSE lib.ret]
                 IN IF b.panic THEN Panicked(p, l)
                    ELSE IF b.err # "" THEN Fail(p, l, b.err)
                    ELSE Goto(p,
                              IF loc[p].op = "push" THEN getLazyCachePckCert[1] ELSE "cachePckCertInfo",
                              [l EXCEPT !.pckCertInfo.CertIndex = b.val,
                                        !.platformInfo.Fmspc = loc[p].pckCertInfo.Fmspc,
                                        !.fmspcTcb = t.val,
                                        !.pckCerts = <<>>])

\* cachePlatformInfo
cachePlatformInfo(p, dbok) ==
    /\ pc[p] = "cachePlatformInfo"
    /\ UNCHANGED <<platformTcb, pckCertChain, pckCert, pckCrl, fmspcTcbInfo, qeIdentity, called>>
    /\ LET key == loc[p].platformInfo.QeID
           ct == CacheTypeOf(loc[p].op)
       IN IF CanWrite(platform, key, ct, dbok)
          THEN /\ platform' = [platform EXCEPT ![key] = loc[p].platformInfo]
               /\ Wrote(p, "Platform")
               /\ Goto(p, StepAfter("cachePlatformInfo"), loc[p])
          ELSE /\ Fail(p, loc[p], WriteError(platform, key, ct, dbok))
               /\ UNCHANGED <<platform, wrote>>

\* cachePckCertChainInfo: the row gets a fresh id
cachePckCertChainInfo(p, dbok) ==
    /\ pc[p] = "cachePckCertChainInfo"
    /\ UNCHANGED <<platform, platformTcb, pckCert, pckCrl, fmspcTcbInfo, qeIdentity, called>>
    /\ IF dbok
       THEN /\ pckCertChain' = Append(pckCertChain, [PckCertChain |-> loc[p].pckCertChain])
            /\ Wrote(p, "PckCertChain")
            /\ Goto(p, StepAfter("cachePckCertChainInfo"), loc[p])
       ELSE /\ Fail(p, loc[p], "storage")
            /\ UNCHANGED <<pckCertChain, wrote>>

\* cachePlatformTcbInfo, with tcbm = Tcbms[CertIndex] of the fetched PckCert
cachePlatformTcbInfo(p, dbok) ==
    /\ pc[p] = "cachePlatformTcbInfo"
    /\ UNCHANGED <<platform, pckCertChain, pckCert, pckCrl, fmspcTcbInfo, qeIdentity, called>>
    /\ LET key == loc[p].platformInfo.QeID
           ct == CacheTypeOf(loc[p].op)
           row == [Tcbm |-> loc[p].pckCertInfo.Tcbms[loc[p].pckCertInfo.CertIndex + 1],
                   CPUSvn |-> loc[p].platformInfo.CPUSvn,
                   PceSvn |-> loc[p].platformInfo.PceSvn,
                   PceID |-> loc[p].platformInfo.PceID]
       IN IF CanWrite(platformTcb, key, ct, dbok)
          THEN /\ platformTcb' = [platformTcb EXCEPT ![key] = row]
               /\ Wrote(p, "PlatformTcb")
               /\ Goto(p, StepAfter("cachePlatformTcbInfo"), loc[p])
          ELSE /\ Fail(p, loc[p], WriteError(platformTcb, key, ct, dbok))
               /\ UNCHANGED <<platformTcb, wrote>>

\* The orders in which RetrieveAll can hand back the rows with keys S
Orders(S) == {s \in [1..Cardinality(S) -> S] : \A i, j \in 1..Cardinality(S) : s[i] = s[j] => i = j}

\* A refresh walk is done with its current row: the next row of the walk,
\* or the step after the walk.
NextPckCert(p) ==
    LET w == Tail(loc[p].walk)
        l == [loc[p] EXCEPT !.walk = w, !.pckCertInfo = NoRow, !.fmspcTcb = NoRow,
                            !.pckCertChain = "", !.ca = "", !.platformInfo = NoRow]
    IN IF w # <<>>
       THEN SendPckCerts(p, [l EXCEPT !.platformInfo = Head(w)], called[p])
       ELSE /\ UNCHANGED called
            /\ IF loc[p].op = "refresh"
               THEN Goto(p, "refreshAllPckCrl", l)
               ELSE Return(p, l, 0, "")

\* cachePckCertInfo in a walk that skips a row it could not store
cachePckCertInfo_SkipFailed(p, dbok) ==
    /\ pc[p] = "cachePckCertInfo"
    /\ UNCHANGED <<platform, platformTcb, pckCertChain, pckCrl, fmspcTcbInfo, qeIdentity>>
    /\ LET key == loc[p].pckCertInfo.QeID
           ct == CacheTypeOf(loc[p].op)
       IN IF CanWrite(pckCert, key, ct, dbok)
          THEN /\ pckCert' = [pckCert EXCEPT ![key] = loc[p].pckCertInfo]
               /\ Wrote(p, "PckCert")
               /\ IF loc[p].op = "push"
                  THEN Goto(p, StepAfter("cachePckCertInfo"), loc[p]) /\ UNCHANGED called
                  ELSE NextPckCert(p)
          ELSE /\ UNCHANGED <<pckCert, wrote>>
               /\ IF loc[p].op = "push"
                  THEN Fail(p, loc[p], WriteError(pckCert, key, ct, dbok)) /\ UNCHANGED called
                  ELSE NextPckCert(p)

\* cachePckCertInfo: Create for a push, Update for a refresh walk
cachePckCertInfo(p, dbok) ==
    /\ pc[p] = "cachePckCertInfo"
    /\ UNCHANGED <<platform, platformTcb, pckCertChain, pckCrl, fmspcTcbInfo, qeIdentity>>
    /\ LET key == loc[p].pckCertInfo.QeID
           ct == CacheTypeOf(loc[p].op)
       IN IF CanWrite(pckCert, key, ct, dbok)
          THEN /\ pckCert' = [pckCert EXCEPT ![key] = loc[p].pckCertInfo]
               /\ Wrote(p, "PckCert")
               /\ IF loc[p].op = "push"
                  THEN Goto(p, StepAfter("cachePckCertInfo"), loc[p]) /\ UNCHANGED called
                  ELSE NextPckCert(p)
          ELSE /\ Fail(p, loc[p], WriteError(pckCert, key, ct, dbok))
               /\ UNCHANGED <<pckCert, wrote, called>>

\* pushPlatformInfo fetching the CRL whether or not its row is there
pushPckCrl_AlwaysFetch(p) ==
    /\ pc[p] = "pushPckCrl"
    /\ UNCHANGED <<db, wrote>>
    /\ Goto(p, "pckcrl", loc[p]) /\ Called(p, called[p] \cup {"pckcrl"})

\* pushPlatformInfo after getLazyCachePckCert: Retrieve of the PckCrl row
\* of the CA type, getLazyCachePckCrl on a miss
pushPckCrl(p) ==
    /\ pc[p] = "pushPckCrl"
    /\ UNCHANGED <<db, wrote>>
    /\ IF pckCrl[loc[p].ca] # NoRow
       THEN Goto(p, "pushFmspcTcbInfo", loc[p]) /\ UNCHANGED called
       ELSE Goto(p, "pckcrl", loc[p]) /\ Called(p, called[p] \cup {"pckcrl"})

\* GetLazyCachePckCrl, the /pckcrl response arrives
getLazyCachePckCrlRecv(p, r) ==
    /\ pc[p] = "pckcrl"
    /\ UNCHANGED <<db, wrote, called>>
    /\ LET res == fetchPckCrlInfo(loc[p].ca, r)
       IN IF res.err # ""
          THEN Fail(p, loc[p], res.err)
          ELSE Goto(p, "cachePckCrlInfo", [loc[p] EXCEPT !.fetched = res.val])

\* cachePckCrlInfo, then the next row of refreshAllPckCrl or the next step
cachePckCrlInfo(p, dbok) ==
    /\ pc[p] = "cachePckCrlInfo"
    /\ UNCHANGED <<platform, platformTcb, pckCertChain, pckCert, fmspcTcbInfo, qeIdentity>>
    /\ LET key == loc[p].ca
           ct == CacheTypeOf(loc[p].op)
           w == Tail(loc[p].walk)
           l == [loc[p] EXCEPT !.fetched = NoRow]
       IN IF CanWrite(pckCrl, key, ct, dbok)
          THEN /\ pckCrl' = [pckCrl EXCEPT ![key] = loc[p].fetched]
               /\ Wrote(p, "PckCrl")
               /\ IF loc[p].op = "push"
                  THEN Goto(p, "pushFmspcTcbInfo", l) /\ UNCHANGED called
                  ELSE IF w # <<>>
                  THEN /\ Goto(p, "pckcrl", [l EXCEPT !.walk = w, !.ca = Head(w)])
                       /\ Called(p, called[p] \cup {"pckcrl"})
                  ELSE /\ Goto(p, "refreshAllTcbInfo", [l EXCEPT !.walk = w, !.ca = ""])
                       /\ UNCHANGED called
          ELSE /\ Fail(p, loc[p], WriteError(pckCrl, key, ct, dbok))
               /\ UNCHANGED <<pckCrl, wrote, called>>

\* pushPlatformInfo: Retrieve of the FmspcTcbInfo row of platform.Fmspc,
\* getLazyCacheFmspcTcbInfo on a miss
pushFmspcTcbInfo(p) ==
    /\ pc[p] = "pushFmspcTcbInfo"
    /\ UNCHANGED <<db, wrote>>
    /\ IF fmspcTcbInfo[loc[p].platformInfo.Fmspc] # NoRow
       THEN Goto(p, "pushQEIdentity", loc[p]) /\ UNCHANGED called
       ELSE /\ Goto(p, "tcbinfo", [loc[p] EXCEPT !.fmspc = loc[p].platformInfo.Fmspc])
            /\ Called(p, called[p] \cup {"tcb"})

\* GetLazyCacheFmspcTcbInfo, the /tcb response arrives
getLazyCacheFmspcTcbInfoRecv(p, r) ==
    /\ pc[p] = "tcbinfo"
    /\ UNCHANGED <<db, wrote, called>>
    /\ LET res == fetchFmspcTcbInfo(loc[p].fmspc, r)
       IN IF res.err # ""
          THEN Fail(p, loc[p], res.err)
          ELSE Goto(p, "cacheFmspcTcbInfo", [loc[p] EXCEPT !.fetched = res.val])

\* cacheFmspcTcbInfo, then the next row of refreshAllTcbInfo or the next step
cacheFmspcTcbInfo(p, dbok) ==
    /\ pc[p] = "cacheFmspcTcbInfo"
    /\ UNCHANGED <<platform, platformTcb, pckCertChain, pckCert, pckCrl, qeIdentity>>
    /\ LET key == loc[p].fmspc
           ct == CacheTypeOf(loc[p].op)
           w == Tail(loc[p].walk)
           l == [loc[p] EXCEPT !.fetched = NoRow]
       IN IF CanWrite(fmspcTcbInfo, key, ct, dbok)
          THEN /\ fmspcTcbInfo' = [fmspcTcbInfo EXCEPT ![key] = loc[p].fetched]
               /\ Wrote(p, "FmspcTcbInfo")
               /\ IF loc[p].op = "push"
                  THEN Goto(p, "pushQEIdentity", l) /\ UNCHANGED called
                  ELSE IF w # <<>>
                  THEN /\ Goto(p, "tcbinfo", [l EXCEPT !.walk = w, !.fmspc = Head(w)])
                       /\ Called(p, called[p] \cup {"tcb"})
                  ELSE /\ Goto(p, "refreshAllQE", [l EXCEPT !.walk = w, !.fmspc = ""])
                       /\ UNCHANGED called
          ELSE /\ Fail(p, loc[p], WriteError(fmspcTcbInfo, key, ct, dbok))
               /\ UNCHANGED <<fmspcTcbInfo, wrote, called>>

\* pushPlatformInfo: Retrieve of the QEIdentity row, getLazyCacheQEIdentityInfo
\* on a miss; with the row there the handler answers 201
pushQEIdentity(p) ==
    /\ pc[p] = "pushQEIdentity"
    /\ UNCHANGED <<db, wrote>>
    /\ IF qeIdentity # <<>>
       THEN Return(p, loc[p], StatusCreated, "") /\ UNCHANGED called
       ELSE Goto(p, "qe", loc[p]) /\ Called(p, called[p] \cup {"qe"})

\* GetLazyCacheQEIdentityInfo, the /qe/identity response arrives
getLazyCacheQEIdentityInfoRecv(p, r) ==
    /\ pc[p] = "qe"
    /\ UNCHANGED <<db, wrote, called>>
    /\ LET res == fetchQeIdentityInfo(r)
       IN IF res.err # ""
          THEN Fail(p, loc[p], res.err)
          ELSE Goto(p, "cacheQeIdentityInfo", [loc[p] EXCEPT !.fetched = res.val])

\* cacheQeIdentityInfo: Create adds a row, Update overwrites the row; the
\* request ends: 201 for a push, 200 for GET /refreshes, nil for the timer
cacheQeIdentityInfo(p, dbok) ==
    /\ pc[p] = "cacheQeIdentityInfo"
    /\ UNCHANGED <<platform, platformTcb, pckCertChain, pckCert, pckCrl, fmspcTcbInfo, called>>
    /\ IF dbok
       THEN /\ qeIdentity' = IF CacheTypeOf(loc[p].op) = CacheInsert
                             THEN Append(qeIdentity, loc[p].fetched)
                             ELSE <<loc[p].fetched>>
            /\ Wrote(p, "QEIdentity")
            /\ Return(p, loc[p],
                      IF loc[p].op = "push" THEN StatusCreated
                      ELSE IF loc[p].op = "refresh" THEN StatusOK ELSE 0, "")
       ELSE /\ Fail(p, loc[p], "storage")
            /\ UNCHANGED <<qeIdentity, wrote>>

(***************************************************************************)
(* GET /refreshes and the refresh timers                                   *)
(***************************************************************************)
\* refreshPlatformInfo: the handler enters refreshPckCerts
refreshPlatformInfo(p) ==
    /\ pc[p] = "idle"
    /\ wrote' = [wrote EXCEPT ![p] = {}]
    /\ Called(p, {})
    /\ Goto(p, "refreshPckCerts", [NoLoc EXCEPT !.op = "refresh"])
    /\ UNCHANGED db

\* RefreshPlatformInfoTimer(rtype): refreshPckCerts for "certs",
\* refreshNonPCKCollaterals for "tcbs"
RefreshPlatformInfoTimer(p, rtype) ==
    /\ pc[p] = "idle"
    /\ rtype \in {"certs", "tcbs"}
    /\ wrote' = [wrote EXCEPT ![p] = {}]
    /\ Called(p, {})
    /\ Goto(p, IF rtype = "certs" THEN "refreshPckCerts" ELSE "refreshAllPckCrl",
            [NoLoc EXCEPT !.op = rtype])
    /\ UNCHANGED db

\* a tick of the refresh task rtype is running
TickRunning(rtype) == \E p \in Procs : pc[p] # "idle" /\ loc[p].op = rtype

\* a timer fire that starts a tick whatever is running
TimerFire_Unguarded(p, rtype) ==
    RefreshPlatformInfoTimer(p, rtype)

\* The refresh scheduler: the timer of task rtype fires; a tick of the same
\* task still running suppresses the fire.
TimerFire(p, rtype) ==
    /\ ~TickRunning(rtype)
    /\ RefreshPlatformInfoTimer(p, rtype)

\* refreshPckCerts going on when there is no platform to walk
refreshPckCerts_EmptyWalk(p) ==
    /\ pc[p] = "refreshPckCerts"
    /\ UNCHANGED <<db, wrote>>
    /\ LET keys == {q \in QeIds : platform[q] # NoRow}
       IN IF keys = {}
          THEN /\ UNCHANGED called
               /\ IF loc[p].op = "refresh"
                  THEN Goto(p, "refreshAllPckCrl", loc[p])
                  ELSE Return(p, loc[p], 0, "")
          ELSE \E o \in Orders(keys) :
                 LET w == [i \in 1..Len(o) |-> platform[o[i]]]
                 IN SendPckCerts(p, [loc[p] EXCEPT !.walk = w, !.platformInfo = Head(w)], called[p])

\* refreshPckCerts: RetrieveAll of the platforms, then the walk
refreshPckCerts(p) ==
    /\ pc[p] = "refreshPckCerts"
    /\ UNCHANGED <<db, wrote>>
    /\ LET keys == {q \in QeIds : platform[q] # NoRow}
       IN IF keys = {}
          THEN Fail(p, loc[p], "no platform") /\ UNCHANGED called
          ELSE \E o \in Orders(keys) :
                 LET w == [i \in 1..Len(o) |-> platform[o[i]]]
                 IN SendPckCerts(p, [loc[p] EXCEPT !.walk = w, !.platformInfo = Head(w)], called[p])

\* refreshAllPckCrl going on to the next step when there is no row to walk
refreshAllPckCrl_EmptyWalk(p) ==
    /\ pc[p] = "refreshAllPckCrl"
    /\ UNCHANGED <<db, wrote>>
    /\ LET keys == {c \in CaValues : pckCrl[c] # NoRow}
       IN IF keys = {}
          THEN Goto(p, "refreshAllTcbInfo", loc[p]) /\ UNCHANGED called
          ELSE \E o \in Orders(keys) :
                 /\ Goto(p, "pckcrl", [loc[p] EXCEPT !.walk = o, !.ca = Head(o)])
                 /\ Called(p, called[p] \cup {"pckcrl"})

\* refreshAllPckCrl: RetrieveAll of the PckCrl rows, then the walk
refreshAllPckCrl(p) ==
    /\ pc[p] = "refreshAllPckCrl"
    /\ UNCHANGED <<db, wrote>>
    /\ LET keys == {c \in CaValues : pckCrl[c] # NoRow}
       IN IF keys = {}
          THEN Fail(p, loc[p], "no pck crl") /\ UNCHANGED called
          ELSE \E o \in Orders(keys) :
                 /\ Goto(p, "pckcrl", [loc[p] EXCEPT !.walk = o, !.ca = Head(o)])
                 /\ Called(p, called[p] \cup {"pckcrl"})

\* refreshAllTcbInfo: RetrieveAll of the FmspcTcbInfo rows, then the walk
refreshAllTcbInfo(p) ==
    /\ pc[p] = "refreshAllTcbInfo"
    /\ UNCHANGED <<db, wrote>>
    /\ LET keys == {f \in FmspcValues : fmspcTcbInfo[f] # NoRow}
       IN IF keys = {}
          THEN Fail(p, loc[p], "no tcbinfo") /\ UNCHANGED called
          ELSE \E o \in Orders(keys) :
                 /\ Goto(p, "tcbinfo", [loc[p] EXCEPT !.walk = o, !.fmspc = Head(o)])
                 /\ Called(p, called[p] \cup {"tcb"})

\* refreshAllQE: Retrieve of the QEIdentity row, then the fetch
refreshAllQE(p) ==
    /\ pc[p] = "refreshAllQE"
    /\ UNCHANGED <<db, wrote>>
    /\ IF qeIdentity = <<>>
       THEN Fail(p, loc[p], "no qe identity") /\ UNCHANGED called
       ELSE Goto(p, "qe", loc[p]) /\ Called(p, called[p] \cup {"qe"})

(***************************************************************************)
(* Specifications                                                          *)
(***************************************************************************)
\* One handler goroutine p takes a step; B: the request bodies, R: the
\* responses of the upstream endpoints, D: the outcomes of a repository
\* write (TRUE: the statement is executed, FALSE: it fails), C: the return
\* codes of the selection library.
Handler(p, B, R, D, C) ==
    \/ \E body \in B : pushPlatformInfo(p, body)
    \/ \E r \in R.pckcerts : fetchPckCertInfoRecv(p, r)
    \/ \E r \in R.tcb : fetchPckCertInfoSelect(p, r, C)
    \/ \E dbok \in D : cachePlatformInfo(p, dbok)
    \/ \E dbok \in D : cachePckCertChainInfo(p, dbok)
    \/ \E dbok \in D : cachePckCertInfo(p, dbok)
    \/ \E dbok \in D : cachePlatformTcbInfo(p, dbok)
    \/ pushPckCrl(p)
    \/ \E r \in R.pckcrl : getLazyCachePckCrlRecv(p, r)
    \/ \E dbok \in D : cachePckCrlInfo(p, dbok)
    \/ pushFmspcTcbInfo(p)
    \/ \E r \in R.tcb : getLazyCacheFmspcTcbInfoRecv(p, r)
    \/ \E dbok \in D : cacheFmspcTcbInfo(p, dbok)
    \/ pushQEIdentity(p)
    \/ \E r \in R.qe : getLazyCacheQEIdentityInfoRecv(p, r)
    \/ \E dbok \in D : cacheQeIdentityInfo(p, dbok)
    \/ refreshPlatformInfo(p)
    \/ \E rtype \in {"certs", "tcbs"} : TimerFire(p, rtype)
    \/ refreshPckCerts(p)
    \/ refreshAllPckCrl(p)
    \/ refreshAllTcbInfo(p)
    \/ refreshAllQE(p)

\* Handlers running at the same time; every repository write is executed,
\* the selection library answers 0 or 12 (raw TCB below all PCKs)
Next == (\E p \in Procs : Handler(p, Bodies, Upstream(PckCertsFew), {TRUE}, {0, 12})) /\ UNCHANGED aux
Spec == Init /\ [][Next]_vars

\* One handler at a time, one platform, every /pckcerts body, repository
\* writes that can fail
NextSerial ==
    /\ Handler(1, SerialBodies, Upstream(PckCertsResponses), BOOLEAN, SelectorCodes)
    /\ UNCHANGED aux
SpecSerial == Init /\ [][NextSerial]_vars

\* One handler at a time, one platform, every repository write executed,
\* every kind of upstream response
NextUpstream ==
    /\ Handler(1, {ValidBody("q1")}, UpstreamAny, {TRUE}, {0, 12})
    /\ UNCHANGED aux
SpecUpstream == Init /\ [][NextUpstream]_vars

(***************************************************************************)
(* compareTcbComponents                                                    *)
(***************************************************************************)
\* the loop over the MaxTcbLevels components, from component i on
RECURSIVE CompareLoop(_, _, _, _, _)
CompareLoop(pckComponents, tcbComponents, i, leftLower, rightLower) ==
    IF i > MaxTcbLevels
    THEN [leftLower |-> leftLower, rightLower |-> rightLower]
    ELSE CompareLoop(pckComponents, tcbComponents, i + 1,
                     leftLower \/ pckComponents[i] < tcbComponents[i],
                     rightLower \/ pckComponents[i] > tcbComponents[i])

compareTcbComponents_PceSvnIgnored(pckComponents, pckpcesvn, tcbComponents, tcbpcesvn) ==
    IF Len(pckComponents) # MaxTcbLevels \/ Len(tcbComponents) # MaxTcbLevels
    THEN Error
    ELSE LET f == CompareLoop(pckComponents, tcbComponents, 1, FALSE, FALSE)
         IN IF f.leftLower /\ f.rightLower THEN Undefined
            ELSE IF f.leftLower THEN Lower
            ELSE EqualOrGreater

compareTcbComponents(pckComponents, pckpcesvn, tcbComponents, tcbpcesvn) ==
    IF Len(pckComponents) # MaxTcbLevels \/ Len(tcbComponents) # MaxTcbLevels
    THEN Error
    ELSE LET f == CompareLoop(pckComponents, tcbComponents, 1,
                              pckpcesvn < tcbpcesvn, pckpcesvn > tcbpcesvn)
         IN IF f.leftLower /\ f.rightLower THEN Undefined
            ELSE IF f.leftLower THEN Lower
            ELSE EqualOrGreater

\* Component vectors of n bytes: 1 everywhere but v at position pos
Vec(n, pos, v) == [i \in 1..n |-> IF i = pos THEN v ELSE 1]
CmpVectors ==
    {Vec(n, pos, v) : n \in {MaxTcbLevels - 1, MaxTcbLevels, MaxTcbLevels + 1},
                      pos \in 1..(MaxTcbLevels + 1), v \in 0..MaxByte}
CmpInputs ==
    [pckComponents : CmpVectors, pckpcesvn : 0..MaxSvn,
     tcbComponents : CmpVectors, tcbpcesvn : 0..MaxSvn]

InitCmp ==
    /\ InitCache /\ cmpIn \in CmpInputs /\ cmpOut = -1
    /\ InitTcbNone /\ InitValNone /\ InitOpsNone

\* getTcbStatus compares one TCB level
Compare ==
    /\ cmpOut = -1
    /\ cmpOut' = compareTcbComponents(cmpIn.pckComponents, cmpIn.pckpcesvn,
                                      cmpIn.tcbComponents, cmpIn.tcbpcesvn)
    /\ UNCHANGED <<db, pc, loc, resp, err, wrote, called, cmpIn, tcbReq, tcbResp, valIn, valOut,
                   provIn, provOut, setupIn, setupOut,
                   now, stamped, qeIn, qeOut>>

NextCmp == Compare
SpecCmp == InitCmp /\ [][NextCmp]_vars

(***************************************************************************)
(* GET /tcbstatus: getTcbStatus                                            *)
(***************************************************************************)
MaxTcbInfoLevels == 2     \* entries of tcbLevels of a TCB info

\* A hex string is the sequence of the values of its characters; NonHex is
\* a character that is no hex digit.
NonHex == 16
HexOf(bytes) ==
    [k \in 1..(2 * Len(bytes)) |->
        IF k % 2 = 1 THEN bytes[(k + 1) \div 2] \div 16 ELSE bytes[k \div 2] % 16]

\* encoding/hex DecodeString: an error for an odd length or a character
\* that is no hex digit, else one byte per pair of characters
DecodeString(h) ==
    IF Len(h) % 2 # 0 \/ \E k \in 1..Len(h) : h[k] = NonHex
    THEN Err("hex")
    ELSE Ok([i \in 1..(Len(h) \div 2) |-> 16 * h[2 * i - 1] + h[2 * i]])

\* binary.LittleEndian.Uint16 read big-endian
LittleEndianUint16_BigEndian(b) == 256 * b[1] + b[2]

\* binary.LittleEndian.Uint16
LittleEndianUint16(b) == b[1] + 256 * b[2]

\* getTcbCompList: the sixteen SgxTcbCompNNSvn fields in order
getTcbCompList(tcbLevelList) ==
    <<tcbLevelList.SgxTcbComp01Svn, tcbLevelList.SgxTcbComp02Svn,
      tcbLevelList.SgxTcbComp03Svn, tcbLevelList.SgxTcbComp04Svn,
      tcbLevelList.SgxTcbComp05Svn, tcbLevelList.SgxTcbComp06Svn,
      tcbLevelList.SgxTcbComp07Svn, tcbLevelList.SgxTcbComp08Svn,
      tcbLevelList.SgxTcbComp09Svn, tcbLevelList.SgxTcbComp10Svn,
      tcbLevelList.SgxTcbComp11Svn, tcbLevelList.SgxTcbComp12Svn,
      tcbLevelList.SgxTcbComp13Svn, tcbLevelList.SgxTcbComp14Svn,
      tcbLevelList.SgxTcbComp15Svn, tcbLevelList.SgxTcbComp16Svn>>

\* The loop of getTcbStatus without its break: the last match stays
RECURSIVE TcbLevelsLoop_NoBreak(_, _, _, _)
TcbLevelsLoop_NoBreak(tcbLevels, i, pckComponents, pckPceSvn) ==
    IF i > Len(tcbLevels) THEN [status |-> "", level |-> 0]
    ELSE LET rest == TcbLevelsLoop_NoBreak(tcbLevels, i + 1, pckComponents, pckPceSvn)
         IN IF rest.level # 0 THEN rest
            ELSE IF compareTcbComponents(pckComponents, pckPceSvn,
                                         getTcbCompList(tcbLevels[i].Tcb),
                                         tcbLevels[i].Tcb.PceSvn) = EqualOrGreater
            THEN [status |-> tcbLevels[i].TcbStatus, level |-> i]
            ELSE rest

\* The loop of getTcbStatus over tcbLevels[i..]: status of the level the
\* loop breaks at, and that level (0: the loop ran to its end)
RECURSIVE TcbLevelsLoop(_, _, _, _)
TcbLevelsLoop(tcbLevels, i, pckComponents, pckPceSvn) ==
    IF i > Len(tcbLevels) THEN [status |-> "", level |-> 0]
    ELSE IF compareTcbComponents(pckComponents, pckPceSvn,
                                 getTcbCompList(tcbLevels[i].Tcb),
                                 tcbLevels[i].Tcb.PceSvn) = EqualOrGreater
    THEN [status |-> tcbLevels[i].TcbStatus, level |-> i]
    ELSE TcbLevelsLoop(tcbLevels, i + 1, pckComponents, pckPceSvn)

\* response of getTcbStatus: code, Response.Status, Response.Message, the
\* level the loop stopped at and the status it read
TcbResponse(code, st, msg, lv, ts) ==
    [code |-> code, Status |-> st, Message |-> msg, level |-> lv, tcbStatus |-> ts]
TcbError(code, msg) == TcbResponse(code, "", msg, 0, "")

\* the verdict with ConfigurationNeeded not counted as up to date
TcbVerdict_UpToDateOnly(status, level) ==
    IF status = "UpToDate"
    THEN TcbResponse(StatusOK, "true", "TCB Status is UpToDate", level, status)
    ELSE TcbResponse(StatusOK, "false", "TCB Status is not UpToDate", level, status)

\* the verdict written by getTcbStatus
TcbVerdict(status, level) ==
    IF status = "UpToDate" \/ status = "ConfigurationNeeded"
    THEN TcbResponse(StatusOK, "true", "TCB Status is UpToDate", level, status)
    ELSE TcbResponse(StatusOK, "false", "TCB Status is not UpToDate", level, status)

\* getTcbStatus from the decoding of the tcbm on: Tcbms[certIndex] is
\* read without a look at len(Tcbms), and a tcbm of fewer than 18 bytes
\* makes tcbm[16:] too short for Uint16; both are run-time panics
TcbStatusOf(pckCertData, fmspcRow) ==
    IF pckCertData.CertIndex >= Len(pckCertData.Tcbms) THEN TcbError(0, "panic")
    ELSE
    LET tcbm == DecodeString(pckCertData.Tcbms[pckCertData.CertIndex + 1])
    IN IF tcbm.err # "" THEN TcbError(StatusInternalServerError, "cannot decode tcbm")
       ELSE IF Len(tcbm.val) < MaxTcbLevels + 2 THEN TcbError(0, "panic")
       ELSE IF ~fmspcRow.TcbInfo.json
       THEN TcbError(StatusInternalServerError, "cannot unmarshal tcbinfo")
       ELSE LET r == TcbLevelsLoop(fmspcRow.TcbInfo.tcbLevels, 1,
                                   SubSeq(tcbm.val, 1, MaxTcbLevels),
                                   LittleEndianUint16(SubSeq(tcbm.val, MaxTcbLevels + 1,
                                                             Len(tcbm.val))))
            IN TcbVerdict(r.status, r.level)

\* getTcbStatus where a missing Platform row is not looked at
getTcbStatusResponse_PlatformUnchecked(req) ==
    IF ~req.hasQuery THEN TcbError(StatusBadRequest, "query data not provided")
    ELSE IF ~validateInputString("qe_id", req.qeid) THEN TcbError(StatusBadRequest, "invalid qeid")
    ELSE IF pckCert[req.qeid.txt] = NoRow THEN TcbError(StatusNotFound, "no pck cert record found")
    ELSE IF fmspcTcbInfo[pckCert[req.qeid.txt].Fmspc] = NoRow
    THEN TcbError(StatusNotFound, "no tcb info record found")
    ELSE TcbStatusOf(pckCert[req.qeid.txt], fmspcTcbInfo[pckCert[req.qeid.txt].Fmspc])

\* getTcbStatus: the query, the three Retrieves, the verdict
getTcbStatusResponse(req) ==
    IF ~req.hasQuery THEN TcbError(StatusBadRequest, "query data not provided")
    ELSE IF ~validateInputString("qe_id", req.qeid) THEN TcbError(StatusBadRequest, "invalid qeid")
    ELSE IF pckCert[req.qeid.txt] = NoRow THEN TcbError(StatusNotFound, "no pck cert record found")
    ELSE IF platform[req.qeid.txt] = NoRow THEN TcbError(StatusNotFound, "no platform record found")
    ELSE IF fmspcTcbInfo[platform[req.qeid.txt].Fmspc] = NoRow
    THEN TcbError(StatusNotFound, "no tcb info record found")
    ELSE TcbStatusOf(pckCert[req.qeid.txt], fmspcTcbInfo[platform[req.qeid.txt].Fmspc])

\* getTcbStatus storing the verdict in the PlatformTcb row of the platform
getTcbStatus_StoresVerdict ==
    /\ tcbResp = NoRow
    /\ tcbResp' = getTcbStatusResponse(tcbReq)
    /\ platformTcb' = [platformTcb EXCEPT !["q1"] = [QeID |-> "q1", Tcbm |-> tcbResp'.tcbStatus]]
    /\ UNCHANGED <<platform, pckCertChain, pckCert, pckCrl, fmspcTcbInfo, qeIdentity,
                   pc, loc, resp, err, wrote, called, cmpIn, cmpOut, tcbReq, valIn, valOut,
                   provIn, provOut, setupIn, setupOut,
                   now, stamped, qeIn, qeOut>>

\* GET /tcbstatus: the response is computed from the three rows read; the
\* handler calls no Create, Update or Delete and no function of the PCS client
getTcbStatus ==
    /\ tcbResp = NoRow
    /\ tcbResp' = getTcbStatusResponse(tcbReq)
    /\ UNCHANGED <<db, pc, loc, resp, err, wrote, called, cmpIn, cmpOut, tcbReq, valIn, valOut,
                   provIn, provOut, setupIn, setupOut,
                   now, stamped, qeIn, qeOut>>

\* Stored rows and requests of the /tcbstatus model
TcbLevel(c1, c16, pcesvn, status) ==
    [Tcb |-> [SgxTcbComp01Svn |-> c1, SgxTcbComp02Svn |-> 1, SgxTcbComp03Svn |-> 1,
              SgxTcbComp04Svn |-> 1, SgxTcbComp05Svn |-> 1, SgxTcbComp06Svn |-> 1,
              SgxTcbComp07Svn |-> 1, SgxTcbComp08Svn |-> 1, SgxTcbComp09Svn |-> 1,
              SgxTcbComp10Svn |-> 1, SgxTcbComp11Svn |-> 1, SgxTcbComp12Svn |-> 1,
              SgxTcbComp13Svn |-> 1, SgxTcbComp14Svn |-> 1, SgxTcbComp15Svn |-> 1,
              SgxTcbComp16Svn |-> c16, PceSvn |-> pcesvn],
     TcbStatus |-> status]
TcbSvns == {0, 2}
TcbPceSvns == {1, 256}
TcbStatuses == {"UpToDate", "ConfigurationNeeded", "OutOfDate"}
\* TCB levels that differ from the raw TCBs in the first component and the
\* PCE-SVN, two that differ in the last component, and one with a PCE-SVN
\* of 0x8000
TcbLevelValues ==
    {TcbLevel(c1, 1, s, st) : c1 \in TcbSvns, s \in TcbPceSvns, st \in TcbStatuses}
      \cup {TcbLevel(0, 2, 1, "UpToDate"), TcbLevel(0, 0, 1, "OutOfDate"),
            TcbLevel(0, 1, 32768, "UpToDate")}
\* the tcbm of a PCK certificate: 16 component bytes, then the PCE-SVN as
\* two bytes, low byte first, in hex
Tcbm(c1, c16, pcesvn) ==
    HexOf([i \in 1..(MaxTcbLevels + 2) |->
             CASE i = 1 -> c1
               [] i = MaxTcbLevels -> c16
               [] i = MaxTcbLevels + 1 -> pcesvn % 256
               [] i = MaxTcbLevels + 2 -> pcesvn \div 256
               [] OTHER -> 1])
OtherTcbm == Tcbm(7, 7, 7)
PckCertRow(q, tcbm, idx) ==
    [QeID |-> q, PceID |-> "pceid", Fmspc |-> "f1",
     PckCerts |-> <<"pem1", "pem2">>,
     Tcbms |-> IF idx = 0 THEN <<tcbm, OtherTcbm>> ELSE <<OtherTcbm, tcbm>>,
     CertIndex |-> idx]
PlatformRow(q) == [PlatformOf(ValidBody(q)) EXCEPT !.Fmspc = "f1"]
TcbInfoRow(j, levels) ==
    [Fmspc |-> "f1", TcbInfoIssuerChain |-> "tcbchain", TcbInfo |-> [json |-> j, tcbLevels |-> levels]]
TcbRow(present, row) == IF present THEN row ELSE NoRow
TcbRequest(q, n) == [hasQuery |-> TRUE, qeid |-> Str(q, n, TRUE)]

\* the tables of /tcbstatus hold rows of platform q1 only
TcbTables(pckRow, platformRow, tcbRow) ==
    /\ pckCert = [q \in QeIds |-> IF q = "q1" THEN pckRow ELSE NoRow]
    /\ platform = [q \in QeIds |-> IF q = "q1" THEN platformRow ELSE NoRow]
    /\ fmspcTcbInfo = [f \in FmspcValues |-> IF f = "f1" THEN tcbRow ELSE NoRow]
    /\ platformTcb = [q \in QeIds |-> NoRow]
    /\ pckCertChain = <<>>
    /\ pckCrl = [c \in CaValues |-> NoRow]
    /\ qeIdentity = <<>>

InitTcb ==
    /\ InitHandlers /\ InitCmpNone /\ InitValNone /\ InitOpsNone
    /\ tcbResp = NoRow
    /\ \/ \* every row there: all PCK levels against all lists of TCB levels
          /\ tcbReq = TcbRequest("q1", QeIdWidth)
          /\ \E c1 \in TcbSvns, s \in TcbPceSvns, idx \in {0, 1},
                levels \in SeqsUpTo(TcbLevelValues, MaxTcbInfoLevels) :
                TcbTables(PckCertRow("q1", Tcbm(c1, 1, s), idx), PlatformRow("q1"),
                          TcbInfoRow(TRUE, levels))
       \/ \* rows missing, bad requests, rows that do not decode, a
          \* tcbm of 17 bytes, a CertIndex of len(Tcbms)
          /\ tcbReq \in {NoRequest, TcbRequest("q1", QeIdWidth), TcbRequest("q2", QeIdWidth),
                         TcbRequest("q1", QeIdWidth - 1)}
          /\ \E hasPck \in BOOLEAN, hasPlatform \in BOOLEAN, hasTcb \in BOOLEAN, j \in BOOLEAN,
                tcbm \in {Tcbm(2, 2, 256), Tcbm(2, 2, 32768), <<NonHex, 0>>,
                          HexOf([i \in 1..(MaxTcbLevels + 1) |-> 1])},
                idx \in {0, 2} :
                TcbTables(TcbRow(hasPck, PckCertRow("q1", tcbm, idx)),
                          TcbRow(hasPlatform, PlatformRow("q1")),
                          TcbRow(hasTcb, TcbInfoRow(j, <<TcbLevel(0, 0, 1, "UpToDate")>>)))

NextTcb == getTcbStatus
SpecTcb == InitTcb /\ [][NextTcb]_vars

(***************************************************************************)
(* ValidateInputString on its own                                          *)
(***************************************************************************)
ValKeys == HexKeys \cup WordKeys \cup {""}
ValStrings ==
    {Empty,
     Str("processor", 9, FALSE), Str("platform", 8, FALSE), Str("Processor", 9, FALSE),
     Str("processor ", 10, FALSE), Str("certs", 5, FALSE), Str("tcbs", 4, FALSE),
     Str("cafe", 4, TRUE), Str("fmspc", FmspcWidth, TRUE), Str("qeid", QeIdWidth, TRUE),
     Str("qeid", QeIdWidth + 1, TRUE), Str("qeid", QeIdWidth, FALSE),
     Str("ppid", EncPPIDWidth, TRUE)}

InitVal ==
    /\ InitCache /\ InitCmpNone /\ InitTcbNone /\ InitOpsNone
    /\ valIn \in [key : ValKeys, inString : ValStrings]
    /\ valOut = NoRow

ValidateInputString ==
    /\ valOut = NoRow
    /\ valOut' = [ok |-> validateInputString(valIn.key, valIn.inString)]
    /\ UNCHANGED <<db, pc, loc, resp, err, wrote, called, cmpIn, cmpOut, tcbReq, tcbResp, valIn,
                   provIn, provOut, setupIn, setupOut,
                   now, stamped, qeIn, qeOut>>

NextVal == ValidateInputString
SpecVal == InitVal /\ [][NextVal]_vars

(***************************************************************************)
(* The refresh timers on a cache that holds one pushed platform            *)
(***************************************************************************)
\* the cache after a push of platform q1 (FMSPC f1, CA processor)
PushedCache ==
    /\ platform = [q \in QeIds |-> IF q = "q1" THEN PlatformRow("q1") ELSE NoRow]
    /\ platformTcb = [q \in QeIds |->
          IF q = "q1" THEN [Tcbm |-> "t1", CPUSvn |-> "cpusvn", PceSvn |-> "pcesvn",
                            PceID |-> "pceid"]
          ELSE NoRow]
    /\ pckCertChain = <<[PckCertChain |-> "chain1"]>>
    /\ pckCert = [q \in QeIds |->
          IF q = "q1" THEN [QeID |-> "q1", PceID |-> "pceid", Fmspc |-> "f1",
                            PckCerts |-> <<"pem1">>, Tcbms |-> <<"t1">>, CertIndex |-> 0]
          ELSE NoRow]
    /\ pckCrl = [c \in CaValues |->
          IF c = "processor" THEN [Ca |-> "processor", PckCrlCertChain |-> "crlchain",
                                   PckCrl |-> "crl1"]
          ELSE NoRow]
    /\ fmspcTcbInfo = [f \in FmspcValues |->
          IF f = "f1" THEN [Fmspc |-> "f1", TcbInfoIssuerChain |-> "tcbchain",
                            TcbInfo |-> "tcbinfo1"]
          ELSE NoRow]
    /\ qeIdentity = <<[QeIssuerChain |-> "qechain", QeInfo |-> "qeinfo1"]>>

InitTimers ==
    /\ PushedCache /\ InitHandlers
    /\ InitCmpNone /\ InitTcbNone /\ InitValNone /\ InitOpsNone

\* the steps of the two refresh tasks
TimerHandler(p) ==
    \/ \E rtype \in {"certs", "tcbs"} : TimerFire(p, rtype)
    \/ refreshPckCerts(p)
    \/ \E r \in PckCertsFew : fetchPckCertInfoRecv(p, r)
    \/ \E r \in TcbResponses : fetchPckCertInfoSelect(p, r, {0, 12})
    \/ \E dbok \in BOOLEAN : cachePckCertInfo(p, dbok)
    \/ refreshAllPckCrl(p)
    \/ \E r \in CrlResponses : getLazyCachePckCrlRecv(p, r)
    \/ \E dbok \in BOOLEAN : cachePckCrlInfo(p, dbok)
    \/ refreshAllTcbInfo(p)
    \/ \E r \in TcbResponses : getLazyCacheFmspcTcbInfoRecv(p, r)
    \/ \E dbok \in BOOLEAN : cacheFmspcTcbInfo(p, dbok)
    \/ refreshAllQE(p)
    \/ \E r \in QeResponses : getLazyCacheQEIdentityInfoRecv(p, r)
    \/ \E dbok \in BOOLEAN : cacheQeIdentityInfo(p, dbok)

NextTimers == (\E p \in Procs : TimerHandler(p)) /\ UNCHANGED aux
SpecTimers == InitTimers /\ [][NextTimers]_vars

\* One handler at a time, two platforms: pushes and refreshes, repository
\* writes that can fail, and a /pckcerts answer with a newer certificate
NextWalk ==
    /\ Handler(1, {ValidBody("q1"), ValidBody("q2")},
               Upstream(PckCertsFew \cup {PckCertsOk("f1", "processor", <<Entry("c2", "t2")>>)}),
               BOOLEAN, {0, 12})
    /\ UNCHANGED aux
SpecWalk == Init /\ [][NextWalk]_vars

\* The refresh walks read whatever Platform row the table holds: rows with
\* and without encrypted PPID and manifest.  One handler at a time; the
\* push sends both.
InitFetch ==
    /\ InitCmpNone /\ InitTcbNone /\ InitValNone /\ InitOpsNone /\ InitHandlers
    /\ \E e \in {"", "ppid"}, m \in {"", "manifest"}, stored \in BOOLEAN :
          platform = [q \in QeIds |->
                        IF q = "q1" /\ stored
                        THEN [PlatformOf(ValidBody(q)) EXCEPT !.Encppid = e, !.Manifest = m,
                                                              !.Fmspc = "f1"]
                        ELSE NoRow]
    /\ platformTcb = [q \in QeIds |-> NoRow]
    /\ pckCertChain = <<>>
    /\ pckCert = [q \in QeIds |-> NoRow]
    /\ pckCrl = [c \in CaValues |-> NoRow]
    /\ fmspcTcbInfo = [f \in FmspcValues |-> NoRow]
    /\ qeIdentity = <<>>
NextFetch ==
    /\ Handler(1, {BothBody("q2")}, Upstream(PckCertsFew), {TRUE}, {0})
    /\ UNCHANGED aux
SpecFetch == InitFetch /\ [][NextFetch]_vars

(***************************************************************************)
(* The upstream client: resource/sgx_prov_client_ops.go                    *)
(***************************************************************************)
DefaultRetrycount == 3    \* constants.DefaultRetrycount

ProvEndpoints == {"pckcerts", "pckcrl", "tcb", "qe/identity"}
\* what client.Do comes back with: a transport error (no response), or a
\* response with a status
Answers ==
    {[err |-> TRUE, status |-> 0]}
      \cup {[err |-> FALSE, status |-> st] :
               st \in {StatusOK, StatusNotFound, StatusInternalServerError}}
\* an upstream GET that has returned after n attempts with answer a
ProvReturned(n, a) == [attempts |-> n, done |-> TRUE, err |-> a.err, status |-> a.status]

InitProv ==
    /\ InitCache /\ InitCmpNone /\ InitTcbNone /\ InitValNone
    /\ setupIn = NoRow /\ setupOut = NoRow
    /\ now = 0 /\ stamped = NoRow /\ qeIn = NoRow /\ qeOut = NoRow
    /\ provIn \in [endpoint : ProvEndpoints, answers : [1..DefaultRetrycount -> Answers]]
    /\ provOut = [attempts |-> 0, done |-> FALSE, err |-> FALSE, status |-> 0]

\* The body shared by the four Get...FromProvServer functions: the request
\* is built, client.Do is called once, and its error or its response is
\* handed back.
GetFromProvServer(endpoint) ==
    /\ provIn.endpoint = endpoint
    /\ ~provOut.done
    /\ provOut' = ProvReturned(provOut.attempts + 1, provIn.answers[provOut.attempts + 1])
    /\ UNCHANGED <<db, pc, loc, resp, err, wrote, called, cmpIn, cmpOut, tcbReq, tcbResp,
                   valIn, valOut, provIn, setupIn, setupOut,
                   now, stamped, qeIn, qeOut>>

\* GetPCKCertFromProvServer, GetPCKCRLFromProvServer,
\* GetFmspcTcbInfoFromProvServer and GetQEInfoFromProvServer
NextProv == \E endpoint \in ProvEndpoints : GetFromProvServer(endpoint)
SpecProv == InitProv /\ [][NextProv]_vars

(***************************************************************************)
(* The Database setup task (tasks.Database.Run) and its tests              *)
(***************************************************************************)
\* the five connection settings: config.Postgres
Settings ==
    [Hostname : {"hostname", "dbhost2"}, Port : {5432, 5433}, Username : {"user", "admin"},
     Password : {"password", "secret"}, DBName : {"scs_db", "scs_db2"}]
\* config.Configuration{}: nothing set
NoSettings == [Hostname |-> "", Port |-> 0, Username |-> "", Password |-> "", DBName |-> ""]

\* postgres.Open: gorm.Open is tried numAttempts times; the error of the
\* last try comes back when none has connected
Open(reachable) == IF reachable THEN Ok(NoRow) ELSE Err("connect")

\* a run that records the settings only once the database has answered
DatabaseRun_ConnectFirst(in) ==
    LET given == IF in.flags # NoRow THEN in.flags ELSE in.env
        conn == Open(in.reachable)
    IN [config |-> IF conn.err = "" THEN given ELSE NoSettings, err |-> conn.err]

\* Database.Run: the settings are taken from the SCS_DB_* environment
\* variables and overridden by the -db-* flags, put into the
\* configuration, and then the database is opened.
DatabaseRun(in) ==
    LET given == IF in.flags # NoRow THEN in.flags ELSE in.env
    IN [config |-> given, err |-> Open(in.reachable).err]

InitSetup ==
    /\ InitCache /\ InitCmpNone /\ InitTcbNone /\ InitValNone
    /\ provIn = NoRow /\ provOut = NoRow
    /\ now = 0 /\ stamped = NoRow /\ qeIn = NoRow /\ qeOut = NoRow
    /\ \E given \in Settings, reachable \in BOOLEAN :
          \/ setupIn = [flags |-> given, env |-> NoRow, reachable |-> reachable]
          \/ setupIn = [flags |-> NoRow, env |-> given, reachable |-> reachable]
    /\ setupOut = NoRow

\* s.Run(ctx) of TestDatabaseSetup and TestDatabaseSetupEnv
RunDatabaseSetup ==
    /\ setupOut = NoRow
    /\ setupOut' = DatabaseRun(setupIn)
    /\ UNCHANGED <<db, pc, loc, resp, err, wrote, called, cmpIn, cmpOut, tcbReq, tcbResp,
                   valIn, valOut, provIn, provOut, setupIn,
                   now, stamped, qeIn, qeOut>>

NextSetup == RunDatabaseSetup
SpecSetup == InitSetup /\ [][NextSetup]_vars

(***************************************************************************)
(* The time stamps of a row: the cache...Info functions and the Update of  *)
(* the repositories                                                        *)
(***************************************************************************)
MaxClock == 3             \* readings of time.Now()
ZeroTime == 0             \* time.Time{}, the CreatedTime of a struct that was just built

\* cache...Info on a struct that was just built, at time t: UpdatedTime is
\* set; for CacheRefresh the repository's Update is gorm Save, which writes
\* every column of the struct; else CreatedTime is set and Create inserts
\* the row, failing when the key is there.
cacheTimes(row, cacheType, t, dbok) ==
    LET u == [CreatedTime |-> ZeroTime, UpdatedTime |-> t]
    IN IF cacheType = CacheRefresh
       THEN IF dbok THEN [row |-> u, err |-> ""] ELSE [row |-> row, err |-> "storage"]
       ELSE IF dbok /\ row = NoRow
            THEN [row |-> [u EXCEPT !.CreatedTime = t], err |-> ""]
            ELSE [row |-> row, err |-> IF dbok THEN "conflict" ELSE "storage"]

\* a table whose rows are stored under a key of their own, and no row yet
InitStamps ==
    /\ InitCache /\ InitCmpNone /\ InitTcbNone /\ InitValNone
    /\ provIn = NoRow /\ provOut = NoRow /\ setupIn = NoRow /\ setupOut = NoRow
    /\ qeIn = NoRow /\ qeOut = NoRow
    /\ now = 1
    /\ \E entity \in {"Platform", "PlatformTcb", "PckCert", "PckCrl", "FmspcTcbInfo"} :
          stamped = [entity |-> entity, row |-> NoRow, created |-> ZeroTime, written |-> ZeroTime]

\* time passes
Tick ==
    /\ now < MaxClock
    /\ now' = now + 1
    /\ UNCHANGED <<db, pc, loc, resp, err, wrote, called, cmpIn, cmpOut, tcbReq, tcbResp,
                   valIn, valOut, provIn, provOut, setupIn, setupOut, stamped, qeIn, qeOut>>

\* a call of the cache...Info function of the entity; on record stay the
\* time of the Create that stored the row and the time of the last write
cacheInfo(cacheType, dbok) ==
    /\ LET res == cacheTimes(stamped.row, cacheType, now, dbok)
       IN stamped' = [stamped EXCEPT !.row = res.row,
                                     !.created = IF res.err = "" /\ cacheType = CacheInsert
                                                 THEN now ELSE @,
                                     !.written = IF res.err = "" THEN now ELSE @]
    /\ UNCHANGED <<db, pc, loc, resp, err, wrote, called, cmpIn, cmpOut, tcbReq, tcbResp,
                   valIn, valOut, provIn, provOut, setupIn, setupOut, now, qeIn, qeOut>>

NextStamps ==
    \/ Tick
    \/ \E cacheType \in {CacheInsert, CacheRefresh}, dbok \in BOOLEAN : cacheInfo(cacheType, dbok)
SpecStamps == InitStamps /\ [][NextStamps]_vars

(***************************************************************************)
(* GetLazyCacheQEIdentityInfo of lazy_cache_ops.go                         *)
(***************************************************************************)
\* types.QEIdentities is a record here: the nil slice, or the rows.
\* The function from the errors of FetchQEIdentityInfo and CacheQEIdentityInfo
\* ("": nil) and the two values of RetrieveAll.  The read-back is taken as
\* failed when the rows are nil and the error is nil too, and the message
\* then calls Error() on the nil error: a run-time panic.  In every other
\* case the rows are returned with a nil error.
GetLazyCacheQEIdentityInfo(fetchErr, cacheErr, existingQeInfo, retrieveErr) ==
    IF fetchErr # "" THEN [result |-> [nil |-> TRUE, rows |-> <<>>], err |-> "FetchQEIdentityInfo:", panic |-> FALSE]
    ELSE IF cacheErr # "" THEN [result |-> [nil |-> TRUE, rows |-> <<>>], err |-> "CacheQEIdentityInfo:", panic |-> FALSE]
    ELSE IF existingQeInfo.nil /\ retrieveErr = ""
    THEN [result |-> [nil |-> TRUE, rows |-> <<>>], err |-> "panic", panic |-> TRUE]
    ELSE [result |-> existingQeInfo, err |-> "", panic |-> FALSE]

\* What the PCS and the repository do during the call: the fetch and the
\* store end with or without an error; RetrieveAll fails (nil rows and an
\* error) or hands back the nil slice, no row, or the rows of the table
InitQe ==
    /\ InitCache /\ InitCmpNone /\ InitTcbNone /\ InitValNone
    /\ provIn = NoRow /\ provOut = NoRow /\ setupIn = NoRow /\ setupOut = NoRow
    /\ now = 0 /\ stamped = NoRow
    /\ qeOut = NoRow
    /\ \E fetchErr \in {"", "upstream", "no content"}, cacheErr \in {"", "storage", "conflict"},
          read \in {[existingQeInfo |-> [nil |-> TRUE, rows |-> <<>>], err |-> "retrieve"],
                    [existingQeInfo |-> [nil |-> TRUE, rows |-> <<>>], err |-> ""]}
                     \cup {[existingQeInfo |-> [nil |-> FALSE, rows |-> rows], err |-> ""] :
                             rows \in {<<>>, <<"qeinfo1">>, <<"qeinfo2">>, <<"qeinfo1", "qeinfo2">>}} :
          qeIn = [fetchErr |-> fetchErr, cacheErr |-> cacheErr,
                  existingQeInfo |-> read.existingQeInfo, err |-> read.err]

getLazyCacheQEIdentityInfoCall ==
    /\ qeOut = NoRow
    /\ qeOut' = GetLazyCacheQEIdentityInfo(qeIn.fetchErr, qeIn.cacheErr,
                                           qeIn.existingQeInfo, qeIn.err)
    /\ UNCHANGED <<db, pc, loc, resp, err, wrote, called, cmpIn, cmpOut, tcbReq, tcbResp,
                   valIn, valOut, provIn, provOut, setupIn, setupOut, now, stamped, qeIn>>

NextQe == getLazyCacheQEIdentityInfoCall
SpecQe == InitQe /\ [][NextQe]_vars

(***************************************************************************)
(* Properties                                                              *)
(***************************************************************************)
InProgress(p) == pc[p] # "idle"
PushOf(p, q) == loc[p].op = "push" /\ loc[p].qe = q

\* The upstream fetch handler p is waiting for: endpoint and natural key
InFlight(p) ==
    CASE pc[p] = "pckcerts" -> <<"pckcerts", loc[p].platformInfo.QeID>>
      [] pc[p] = "tcb" -> <<"tcb", loc[p].pckCertInfo.Fmspc>>
      [] pc[p] = "tcbinfo" -> <<"tcb", loc[p].fmspc>>
      [] pc[p] = "pckcrl" -> <<"pckcrl", loc[p].ca>>
      [] pc[p] = "qe" -> <<"qe", "">>
      [] OTHER -> <<>>

\* C1: two POST /platforms requests for the same QE-ID that are in progress
\* at the same time have not both issued a /pckcerts call.
C1_SingleFlightPush ==
    \A p1, p2 \in Procs, q \in QeIds :
        (p1 # p2 /\ InProgress(p1) /\ InProgress(p2) /\ PushOf(p1, q) /\ PushOf(p2, q))
            => ~("pckcerts" \in called[p1] /\ "pckcerts" \in called[p2])

\* C2: no two handlers (push handlers or refresh walks) wait for an
\* upstream fetch of the same endpoint and the same natural key.
C2_SingleFlightPerKey ==
    \A p1, p2 \in Procs :
        (p1 # p2 /\ InFlight(p1) # <<>>) => InFlight(p1) # InFlight(p2)

\* C3: when a push of a QE-ID has answered 201, no other push of the same
\* QE-ID ends in a 500 for a Create on a row that is already there.
C3_WaitersShareOutcome ==
    \A p1, p2 \in Procs, q \in QeIds :
        (p1 # p2 /\ PushOf(p1, q) /\ PushOf(p2, q) /\ resp[p1] = StatusCreated)
            => ~(resp[p2] = StatusInternalServerError /\ err[p2] = "conflict")

\* C4: a POST /platforms with a valid body whose QE-ID has a Platform row
\* returns 200 at once, with no upstream call and no table changed.
C4_DuplicatePushNoOp ==
    [][\A p \in Procs, body \in Bodies :
          (pushValid(body) /\ platform[body.qe_id.txt] # NoRow /\ pushPlatformInfo(p, body))
              => /\ pc'[p] = "idle"
                 /\ resp'[p] = StatusOK
                 /\ err'[p] = ""
                 /\ called'[p] = {}
                 /\ wrote'[p] = {}
                 /\ UNCHANGED db]_vars
\* a duplicate push has been answered
C4_Witness ==
    \E p \in Procs :
        /\ pc[p] = "idle" /\ loc[p].op = "push" /\ resp[p] = StatusOK
        /\ platform[loc[p].qe] # NoRow /\ called[p] = {}

\* C5: every PckCert row and every Platform row has a FmspcTcbInfo row of
\* its FMSPC, in every state.
C5_Dependency ==
    \A q \in QeIds :
        /\ pckCert[q] # NoRow => fmspcTcbInfo[pckCert[q].Fmspc] # NoRow
        /\ platform[q] # NoRow => fmspcTcbInfo[platform[q].Fmspc] # NoRow

\* C6: in a push, PckCertChain and FmspcTcbInfo are written (or the
\* FmspcTcbInfo row is there) before PckCert, and Platform and then
\* PlatformTcb only after PckCertChain, PckCert and FmspcTcbInfo.
RowFmspc(p) ==
    IF pckCert[loc[p].qe] # NoRow THEN pckCert[loc[p].qe].Fmspc
    ELSE IF platform[loc[p].qe] # NoRow THEN platform[loc[p].qe].Fmspc
    ELSE ""
HasTcbInfo(p) ==
    \/ "FmspcTcbInfo" \in wrote[p]
    \/ \E f \in FmspcValues : RowFmspc(p) = f /\ fmspcTcbInfo[f] # NoRow
C6_WriteOrder ==
    \A p \in Procs :
        loc[p].op = "push" =>
            /\ "PckCert" \in wrote[p] => ("PckCertChain" \in wrote[p] /\ HasTcbInfo(p))
            /\ "Platform" \in wrote[p] =>
                  ({"PckCertChain", "PckCert"} \subseteq wrote[p] /\ HasTcbInfo(p))
            /\ "PlatformTcb" \in wrote[p] => "Platform" \in wrote[p]

\* C7: every PckCert that fetchPckCertInfo has produced and every stored
\* PckCert row has as many PckCerts as Tcbms, at least one, and a CertIndex
\* that is an index of them.
PckCertShape(c) ==
    /\ Len(c.PckCerts) = Len(c.Tcbms)
    /\ Len(c.PckCerts) > 0
    /\ c.CertIndex >= 0
    /\ c.CertIndex < Len(c.PckCerts)
C7_PckCertShape ==
    /\ \A q \in QeIds : pckCert[q] # NoRow => PckCertShape(pckCert[q])
    /\ \A p \in Procs : loc[p].fmspcTcb # NoRow => PckCertShape(loc[p].pckCertInfo)
\* a refresh walk has stored a PckCert of two certificates with the second chosen
C7_Witness ==
    \E p \in Procs, q \in QeIds :
        /\ loc[p].op \in {"refresh", "certs"} /\ "PckCert" \in wrote[p]
        /\ pckCert[q] # NoRow /\ Len(pckCert[q].PckCerts) = 2 /\ pckCert[q].CertIndex = 1

\* C8: when every entry of the /pckcerts array is "Not available",
\* fetchPckCertInfo ends with an error returned to its caller (a selection
\* error, or the error of the /tcb fetch), never abnormally.
C8_AllUnavailable ==
    [][\A p \in Procs :
          (pc[p] = "tcb" /\ loc[p].pckCertInfo.PckCerts = <<>> /\ pc'[p] = "idle")
              => err'[p] \in {"selection", "upstream"}]_vars

\* C9: a push in which the selection library returned a non-zero code has
\* failed with 500 and has written no Platform, PlatformTcb, PckCert or
\* PckCertChain row.
C9_SelectionFailureNoCache ==
    \A p \in Procs :
        (loc[p].op = "push" /\ loc[p].ret # 0) =>
            /\ pc[p] = "idle"
            /\ resp[p] = StatusInternalServerError
            /\ wrote[p] \cap {"Platform", "PlatformTcb", "PckCert", "PckCertChain"} = {}
\* a push has failed on the selection
C9_Witness ==
    \E p \in Procs :
        /\ loc[p].op = "push" /\ loc[p].ret # 0 /\ err[p] = "selection"
        /\ resp[p] = StatusInternalServerError

\* C10: compareTcbComponents is Error unless both vectors have 16 bytes;
\* else Undefined with something below and something above, Lower with
\* something below and nothing above, EqualOrGreater with nothing below.
SomeBelow(in) ==
    \/ in.pckpcesvn < in.tcbpcesvn
    \/ \E i \in 1..MaxTcbLevels : in.pckComponents[i] < in.tcbComponents[i]
SomeAbove(in) ==
    \/ in.pckpcesvn > in.tcbpcesvn
    \/ \E i \in 1..MaxTcbLevels : in.pckComponents[i] > in.tcbComponents[i]
C10_ThreeWay ==
    cmpOut # -1 =>
        IF Len(cmpIn.pckComponents) # 16 \/ Len(cmpIn.tcbComponents) # 16
        THEN cmpOut = Error
        ELSE /\ (SomeBelow(cmpIn) /\ SomeAbove(cmpIn)) => cmpOut = Undefined
             /\ (SomeBelow(cmpIn) /\ ~SomeAbove(cmpIn)) => cmpOut = Lower
             /\ ~SomeBelow(cmpIn) => cmpOut = EqualOrGreater
\* incomparable: the PCE-SVN is below, a component is above
C10_Witness ==
    /\ cmpOut = Undefined
    /\ cmpIn.pckpcesvn < cmpIn.tcbpcesvn
    /\ \E i \in 1..MaxTcbLevels : cmpIn.pckComponents[i] > cmpIn.tcbComponents[i]

\* What GET /tcbstatus has to go by: the rows of the requested QE-ID
TcbQe == tcbReq.qeid.txt
TcbRequestValid == tcbReq.hasQuery /\ validateInputString("qe_id", tcbReq.qeid)
TcbRowMissing ==
    \/ pckCert[TcbQe] = NoRow
    \/ platform[TcbQe] = NoRow
    \/ fmspcTcbInfo[platform[TcbQe].Fmspc] = NoRow
StoredTcbm == DecodeString(pckCert[TcbQe].Tcbms[pckCert[TcbQe].CertIndex + 1])
StoredLevels == fmspcTcbInfo[platform[TcbQe].Fmspc].TcbInfo.tcbLevels
\* the rows are there and decode
TcbAnswerable ==
    /\ TcbRequestValid /\ ~TcbRowMissing
    /\ pckCert[TcbQe].CertIndex < Len(pckCert[TcbQe].Tcbms)
    /\ StoredTcbm.err = "" /\ Len(StoredTcbm.val) = MaxTcbLevels + 2
    /\ fmspcTcbInfo[platform[TcbQe].Fmspc].TcbInfo.json
\* level i of the stored TCB info matches the stored raw TCB
LevelMatches(i) ==
    compareTcbComponents(SubSeq(StoredTcbm.val, 1, MaxTcbLevels),
                         StoredTcbm.val[MaxTcbLevels + 1] + 256 * StoredTcbm.val[MaxTcbLevels + 2],
                         getTcbCompList(StoredLevels[i].Tcb),
                         StoredLevels[i].Tcb.PceSvn) = EqualOrGreater
FirstMatch ==
    IF \E i \in 1..Len(StoredLevels) : LevelMatches(i)
    THEN CHOOSE i \in 1..Len(StoredLevels) :
            LevelMatches(i) /\ \A j \in 1..(i - 1) : ~LevelMatches(j)
    ELSE 0

\* C11: getTcbStatus reads the tcbStatus of the lowest level whose
\* comparison is EqualOrGreater, whatever the later levels are; without
\* such a level it reads none.
C11_FirstMatchWins ==
    (tcbResp # NoRow /\ TcbAnswerable) =>
        /\ tcbResp.level = FirstMatch
        /\ tcbResp.tcbStatus = IF FirstMatch = 0 THEN "" ELSE StoredLevels[FirstMatch].TcbStatus
\* the first level matches, a later level with another status matches too
C11_Witness ==
    /\ tcbResp # NoRow /\ TcbAnswerable
    /\ tcbResp.level = 1
    /\ \E j \in 2..Len(StoredLevels) :
          LevelMatches(j) /\ StoredLevels[j].TcbStatus # StoredLevels[1].TcbStatus

\* C12: GET /tcbstatus answers 200, with "true" / "TCB Status is UpToDate"
\* exactly when the first matching level is UpToDate or ConfigurationNeeded,
\* and "false" / "TCB Status is not UpToDate" otherwise (no level matching
\* and an empty list included).
C12_VerdictMapping ==
    (tcbResp # NoRow /\ TcbAnswerable) =>
        /\ tcbResp.code = StatusOK
        /\ IF FirstMatch # 0 /\ StoredLevels[FirstMatch].TcbStatus \in {"UpToDate", "ConfigurationNeeded"}
           THEN tcbResp.Status = "true" /\ tcbResp.Message = "TCB Status is UpToDate"
           ELSE tcbResp.Status = "false" /\ tcbResp.Message = "TCB Status is not UpToDate"
\* a first match of ConfigurationNeeded behind a level that does not match
C12_Witness ==
    /\ tcbResp # NoRow /\ TcbAnswerable
    /\ FirstMatch = 2 /\ StoredLevels[2].TcbStatus = "ConfigurationNeeded"
    /\ tcbResp.Status = "true"

\* C13: GET /tcbstatus with a valid qeid answers 404 without a verdict when
\* the PckCert row, the Platform row or the FmspcTcbInfo row is missing.
C13_MissingRow404 ==
    (tcbResp # NoRow /\ TcbRequestValid /\ TcbRowMissing) =>
        /\ tcbResp.code = StatusNotFound
        /\ tcbResp.Status = ""
\* the Platform row alone is missing
C13_Witness ==
    /\ tcbResp # NoRow /\ TcbRequestValid
    /\ pckCert[TcbQe] # NoRow /\ platform[TcbQe] = NoRow /\ fmspcTcbInfo["f1"] # NoRow
    /\ tcbResp.code = StatusNotFound

\* C14: a POST /platforms with a field that does not match its pattern is
\* answered 400 "invalid query param data" with no repository access and no
\* upstream call, whatever the cache holds.
C14_ValidationFirst ==
    [][\A p \in Procs, body \in Bodies :
          (~pushValid(body) /\ pushPlatformInfo(p, body))
              => /\ pc'[p] = "idle"
                 /\ resp'[p] = StatusBadRequest
                 /\ err'[p] = "invalid query param data"
                 /\ called'[p] = {}
                 /\ wrote'[p] = {}
                 /\ UNCHANGED db]_vars
\* an invalid push of a QE-ID whose Platform row is there got its 400
C14_Witness ==
    \E p \in Procs :
        /\ pc[p] = "idle" /\ loc[p].op = "push" /\ resp[p] = StatusBadRequest
        /\ platform[loc[p].qe] # NoRow

\* C15: a POST /platforms with an empty enc_ppid, a manifest and valid
\* other fields, for a QE-ID without a Platform row, goes on to the
\* /pckcerts fetch.
C15_ManifestOptionalPpid ==
    [][\A p \in Procs :
          (platform["q1"] = NoRow /\ pushPlatformInfo(p, ManifestBody("q1")))
              => (pc'[p] = "pckcerts" /\ "pckcerts" \in called'[p])]_vars

\* C16: the validator accepts for the key "ca" the strings "processor" and
\* "platform" and no other string.
C16_CaTypes ==
    (valOut # NoRow /\ valIn.key = "ca") =>
        (valOut.ok <=> valIn.inString.txt \in {"processor", "platform"})

\* C17: GET /refreshes with no Platform row answers 404, calls no upstream
\* endpoint and writes no row.
C17_RefreshEmpty ==
    [][\A p \in Procs :
          (/\ loc[p].op = "refresh" /\ pc[p] = "refreshPckCerts" /\ pc'[p] # pc[p]
           /\ \A q \in QeIds : platform[q] = NoRow)
              => /\ pc'[p] = "idle"
                 /\ resp'[p] = StatusNotFound
                 /\ called'[p] = {}
                 /\ wrote'[p] = {}
                 /\ UNCHANGED db]_vars
\* a refresh of the empty cache has been answered
C17_Witness ==
    \E p \in Procs :
        /\ pc[p] = "idle" /\ loc[p].op = "refresh" /\ resp[p] = StatusNotFound
        /\ \A q \in QeIds : platform[q] = NoRow
        /\ pckCrl = [c \in CaValues |-> NoRow] /\ qeIdentity = <<>>

\* C18: GET /refreshes answers 404 exactly when a table it walks is empty;
\* a refresh that fails on an upstream fetch or on a repository write
\* answers 500.
EmptyTableErrors == {"no platform", "no pck crl", "no tcbinfo", "no qe identity"}
C18_NotFoundMeansEmpty ==
    \A p \in Procs :
        (loc[p].op = "refresh" /\ pc[p] = "idle" /\ err[p] # "") =>
            /\ err[p] \in EmptyTableErrors => resp[p] = StatusNotFound
            /\ err[p] \notin EmptyTableErrors => resp[p] = StatusInternalServerError

\* C19: a refresh takes its steps in the order PckCert walk (GET /refreshes
\* and the certs timer), PckCrl, FmspcTcbInfo, QEIdentity; it enters a step
\* only after the step before has written its rows, a failing step ends
\* the run without a call or a write, and every run starts at its first
\* step whatever the run before ended with.
RefreshOps == {"refresh", "certs", "tcbs"}
Stage(label) ==
    CASE label \in {"refreshPckCerts", "pckcerts", "tcb", "cachePckCertInfo"} -> 1
      [] label \in {"refreshAllPckCrl", "pckcrl", "cachePckCrlInfo"} -> 2
      [] label \in {"refreshAllTcbInfo", "tcbinfo", "cacheFmspcTcbInfo"} -> 3
      [] label \in {"refreshAllQE", "qe", "cacheQeIdentityInfo"} -> 4
      [] OTHER -> 0
StageTable(n) ==
    CASE n = 1 -> "PckCert"
      [] n = 2 -> "PckCrl"
      [] n = 3 -> "FmspcTcbInfo"
      [] OTHER -> "QEIdentity"
C19_RefreshOrder ==
    [][\A p \in Procs :
          /\ (loc[p].op \in RefreshOps /\ pc[p] # "idle" /\ pc'[p] # "idle") =>
                \/ Stage(pc'[p]) = Stage(pc[p])
                \/ /\ Stage(pc'[p]) = Stage(pc[p]) + 1
                   /\ StageTable(Stage(pc[p])) \in wrote'[p]
                   /\ loc[p].op # "certs"
          /\ (loc[p].op \in RefreshOps /\ pc[p] # "idle" /\ err'[p] # "") =>
                /\ pc'[p] = "idle"
                /\ called'[p] = called[p] /\ wrote'[p] = wrote[p]
                /\ UNCHANGED db
          /\ (pc[p] = "idle" /\ pc'[p] # "idle" /\ loc'[p].op \in RefreshOps) =>
                /\ Stage(pc'[p]) = IF loc'[p].op = "tcbs" THEN 2 ELSE 1
                /\ called'[p] = {} /\ wrote'[p] = {}]_vars
\* a GET /refreshes failed in its third step on the upstream, after the
\* first two steps
C19_Witness ==
    \E p \in Procs :
        /\ pc[p] = "idle" /\ loc[p].op = "refresh" /\ err[p] = "upstream"
        /\ wrote[p] = {"PckCert", "PckCrl"}
        /\ "tcb" \in called[p]

\* C20: no two ticks of the same refresh task (certs, tcbs) run at the
\* same time.
C20_NoOverlappingTicks ==
    \A p1, p2 \in Procs :
        (p1 # p2 /\ pc[p1] # "idle" /\ pc[p2] # "idle" /\ loc[p1].op \in {"certs", "tcbs"})
            => loc[p1].op # loc[p2].op
\* a tick of each task is running, both waiting for the upstream
C20_Witness ==
    \E p1, p2 \in Procs :
        /\ loc[p1].op = "certs" /\ pc[p1] = "pckcerts"
        /\ loc[p2].op = "tcbs" /\ pc[p2] = "pckcrl"

\* The keys of the keyed tables
PlatformKeys == {q \in QeIds : platform[q] # NoRow}
PckCertKeys == {q \in QeIds : pckCert[q] # NoRow}
FmspcKeys == {f \in FmspcValues : fmspcTcbInfo[f] # NoRow}
CaKeys == {c \in CaValues : pckCrl[c] # NoRow}
\* every row is stored under the key it carries
RowsUnderOwnKey ==
    /\ \A q \in PlatformKeys : platform[q].QeID = q
    /\ \A q \in PckCertKeys : pckCert[q].QeID = q
    /\ \A f \in FmspcKeys : fmspcTcbInfo[f].Fmspc = f
    /\ \A c \in CaKeys : pckCrl[c].Ca = c
\* handler p is in a refresh (GET /refreshes or a timer tick) and takes a step
RefreshStep(p) == loc[p].op \in RefreshOps /\ pc[p] # "idle" /\ pc'[p] # pc[p]

\* C21: no step of a refresh, whether it succeeds or fails, adds or removes
\* a key of the Platform, PckCert, FmspcTcbInfo or PckCrl table, and every
\* row stays under the key it carries.
C21_RefreshPreservesKeys ==
    [][\A p \in Procs :
          RefreshStep(p) =>
              /\ PlatformKeys' = PlatformKeys
              /\ PckCertKeys' = PckCertKeys
              /\ FmspcKeys' = FmspcKeys
              /\ CaKeys' = CaKeys
              /\ RowsUnderOwnKey']_vars

\* The upstream failures of C22: a received response whose status is not
\* 200 or whose body has no bytes
\* (a body of no bytes is one of declared length 0, or one of unknown
\* length that does not parse)
NoBodyBytes(r) == r.empty \/ ~r.json
UpstreamFailure(r) == ~r.err /\ (r.status # StatusOK \/ NoBodyBytes(r))
AllResponses == UpstreamAny.pckcerts \cup UpstreamAny.tcb \cup UpstreamAny.pckcrl \cup UpstreamAny.qe
\* handler p receives response r in one of the four fetches
Receives(p, r) ==
    \/ fetchPckCertInfoRecv(p, r)
    \/ fetchPckCertInfoSelect(p, r, SelectorCodes)
    \/ getLazyCachePckCrlRecv(p, r)
    \/ getLazyCacheFmspcTcbInfoRecv(p, r)
    \/ getLazyCacheQEIdentityInfoRecv(p, r)

\* C22: in each of the four fetches, a response with a status other than
\* 200 or with an empty body ends the fetch with an error; the handler
\* goes no further and no table is changed.
C22_UpstreamFailureNoWrite ==
    [][\A p \in Procs, r \in AllResponses :
          (UpstreamFailure(r) /\ Receives(p, r)) =>
              /\ err'[p] # ""
              /\ pc'[p] = "idle"
              /\ UNCHANGED db]_vars

\* C23: no stored row has an empty issuer chain, FMSPC or CA type (a 200
\* response that lacks a required header makes its fetch fail, so nothing
\* of it is persisted).
C23_NoEmptyHeaderPersisted ==
    /\ \A i \in 1..Len(pckCertChain) : pckCertChain[i].PckCertChain # ""
    /\ \A i \in 1..Len(qeIdentity) : qeIdentity[i].QeIssuerChain # ""
    /\ \A c \in CaKeys : pckCrl[c].PckCrlCertChain # "" /\ pckCrl[c].Ca # ""
    /\ \A f \in FmspcKeys :
          fmspcTcbInfo[f].TcbInfoIssuerChain # "" /\ fmspcTcbInfo[f].Fmspc # ""
    /\ \A q \in PckCertKeys : pckCert[q].Fmspc # ""

\* C24: an upstream GET that has returned an error has made
\* DefaultRetrycount attempts, all of them transport failures; one that has
\* returned a response returned it from the first attempt that was
\* answered, whatever its status, after at most DefaultRetrycount attempts.
C24_BoundedRetry ==
    provOut # NoRow /\ provOut.done =>
        /\ provOut.attempts \in 1..DefaultRetrycount
        /\ \A k \in 1..(provOut.attempts - 1) : provIn.answers[k].err
        /\ provOut.err => provOut.attempts = DefaultRetrycount
        /\ ~provOut.err => ~provIn.answers[provOut.attempts].err

\* C25: at most one PckCertChain row and at most one QEIdentity row exist
\* in every state, and exactly one PckCertChain row once a push has been
\* answered 201.
C25_SingletonRows ==
    /\ Len(pckCertChain) <= 1
    /\ Len(qeIdentity) <= 1
    /\ (\E p \in Procs : loc[p].op = "push" /\ resp[p] = StatusCreated) => Len(pckCertChain) = 1

\* the collateral of QE-ID q is complete: its Platform, PlatformTcb and
\* PckCert rows, the FmspcTcbInfo row of its FMSPC, a PckCrl row and the
\* QEIdentity row
Complete(q) ==
    /\ platform[q] # NoRow /\ platformTcb[q] # NoRow /\ pckCert[q] # NoRow
    /\ \E f \in FmspcKeys : platform[q].Fmspc = f
    /\ CaKeys # {}
    /\ qeIdentity # <<>>
\* handler p has answered a push that met no failure of the upstream, the
\* selection library or the repository
PushEndedHealthy(p) ==
    /\ pc[p] = "idle" /\ loc[p].op = "push" /\ resp[p] # 0
    /\ err[p] \in {"", "conflict"}

\* C26: a push with a valid body that meets a healthy upstream and a healthy
\* repository leaves the collateral of its QE-ID complete, whatever an
\* earlier failed push has left behind.
C26_RecoveryByRetry ==
    \A p \in Procs : PushEndedHealthy(p) => Complete(loc[p].qe)

\* C27: a push is answered 201 only with no error and with the collateral
\* of its QE-ID complete; a push that ends in a failure of a step of its
\* chain is answered 500, and the failing step changes no table, so the
\* rows of the earlier steps stay.
C27_CreatedOnlyWhenComplete ==
    [][\A p \in Procs :
          (loc[p].op = "push" /\ pc[p] # "idle" /\ pc'[p] = "idle") =>
              /\ resp'[p] = StatusCreated => (err'[p] = "" /\ Complete(loc[p].qe)')
              /\ err'[p] # "" =>
                    /\ resp'[p] = StatusInternalServerError
                    /\ wrote'[p] = wrote[p]
                    /\ UNCHANGED db]_vars

C29_PlatformTcbFollows ==
    [][\A p \in Procs, q \in QeIds :
          (RefreshStep(p) /\ pckCert'[q] # pckCert[q]) =>
              /\ platformTcb'[q] # NoRow
              /\ platformTcb'[q].Tcbm = pckCert'[q].Tcbms[pckCert'[q].CertIndex + 1]]_vars

\* C30: a refresh step that stores a re-fetched PckCert leaves the
\* PckCertChain table holding the issuer chain of the /pckcerts response
\* of that fetch.
C30_ChainOverwritten ==
    [][\A p \in Procs :
          (RefreshStep(p) /\ pc[p] = "cachePckCertInfo" /\ err'[p] = "") =>
              /\ pckCertChain' # <<>>
              /\ \A i \in 1..Len(pckCertChain') :
                    pckCertChain'[i].PckCertChain = loc[p].pckCertChain]_vars

\* The row of a PckCert walk fails: the /pckcerts or the /tcb fetch meets a
\* transport error, a status other than 200 or an empty body, the selection
\* library returns a non-zero code, or the Update is not executed.
WalkRowFails(p) ==
    /\ loc[p].op \in RefreshOps
    /\ \/ \E r \in FailedResponses : fetchPckCertInfoRecv(p, r)
       \/ \E r \in FailedResponses : fetchPckCertInfoSelect(p, r, SelectorCodes)
       \/ pc[p] = "tcb" /\ pc'[p] = "idle" /\ loc'[p].ret # 0
       \/ cachePckCertInfo(p, FALSE)

C32_CreatedTimeSetOnce ==
    (stamped.row # NoRow /\ stamped.created # ZeroTime) =>
        /\ stamped.row.CreatedTime = stamped.created
        /\ stamped.row.UpdatedTime = stamped.written

\* C33: every /tcb call in flight carries an FMSPC of twelve hex
\* characters and every /pckcrl call in flight a CA type of {processor,
\* platform}, also when the value came from a header of a /pckcerts
\* response; every PckCrl row is stored under such a CA type.
C33_ValidatedIdentifiers ==
    /\ \A p \in Procs :
          /\ pc[p] = "tcb" => loc[p].pckCertInfo.Fmspc \in Fmspcs
          /\ pc[p] = "tcbinfo" => loc[p].fmspc \in Fmspcs
          /\ pc[p] = "pckcrl" => loc[p].ca \in CaTypes
    /\ \A c \in CaKeys : c \in CaTypes /\ pckCrl[c].Ca \in CaTypes

Available(pckCerts) == SelectSeq(pckCerts, LAMBDA e : e.cert # NotAvailable)

\* C35: while fetchPckCertInfo holds the array of a /pckcerts response, its
\* PckCerts and Tcbms lists are the url-unescaped certificates and the
\* tcbms of exactly the entries whose cert is not "Not available", entry by
\* entry and in the order of the array.
C35_FilterKeepsPairs ==
    \A p \in Procs :
        pc[p] = "tcb" =>
            LET kept == Available(loc[p].pckCerts)
            IN /\ loc[p].pckCertInfo.PckCerts = [k \in 1..Len(kept) |-> QueryUnescape(kept[k].cert)]
               /\ loc[p].pckCertInfo.Tcbms = [k \in 1..Len(kept) |-> kept[k].tcbm]
\* an array whose first entry is "Not available" has been filtered
C35_Witness ==
    \E p \in Procs :
        /\ pc[p] = "tcb"
        /\ loc[p].pckCerts = <<Entry(NotAvailable, "t0"), Entry("c2", "t2")>>
        /\ loc[p].pckCertInfo.PckCerts = <<"pem2">>
        /\ loc[p].pckCertInfo.Tcbms = <<"t2">>

\* the PCE-SVN of the stored raw TCB: bytes 16 and 17 of the TCBM, low byte
\* first
StoredPceSvn == StoredTcbm.val[MaxTcbLevels + 1] + 256 * StoredTcbm.val[MaxTcbLevels + 2]
\* level i is at or below the stored raw TCB, component by component and in
\* the PCE-SVN, all taken as numbers without sign
AtOrBelow(i) ==
    /\ StoredLevels[i].Tcb.PceSvn <= StoredPceSvn
    /\ \A k \in 1..MaxTcbLevels : getTcbCompList(StoredLevels[i].Tcb)[k] <= StoredTcbm.val[k]

\* C36: getTcbStatus takes the PCE-SVN of the raw TCB as byte 16 plus 256
\* times byte 17, a number of 0..65535, and stops at the first level whose
\* components and PCE-SVN are at or below the raw TCB as unsigned numbers.
C36_UnsignedPceSvn ==
    (tcbResp # NoRow /\ TcbAnswerable) =>
        /\ StoredPceSvn \in 0..65535
        /\ tcbResp.level \in 0..Len(StoredLevels)
        /\ tcbResp.level # 0 => AtOrBelow(tcbResp.level)
        /\ \A j \in 1..Len(StoredLevels) :
              (tcbResp.level = 0 \/ j < tcbResp.level) => ~AtOrBelow(j)
\* a raw TCB with PCE-SVN 0x8000 has matched a level with PCE-SVN 1
C36_Witness ==
    /\ tcbResp # NoRow /\ TcbAnswerable
    /\ StoredPceSvn = 32768
    /\ tcbResp.level = 1 /\ StoredLevels[1].Tcb.PceSvn = 1
    /\ tcbResp.Status = "true"

\* fetchPckCertInfo called for the Platform row: without encrypted PPID and
\* manifest the caller gets "invalid request" and nothing is sent; else
\* GET /pckcerts is sent, by the manifest when the row has one
BothEmpty(row) == row.Encppid = "" /\ row.Manifest = ""
fetchCalled(p, row) ==
    IF BothEmpty(row)
    THEN /\ pc'[p] = "idle" /\ err'[p] = "invalid request"
         /\ called'[p] \subseteq called[p]
         /\ UNCHANGED db
    ELSE /\ pc'[p] = "pckcerts" /\ loc'[p].platformInfo = row
         /\ "pckcerts" \in called'[p]
         /\ loc'[p].variant = IF row.Manifest # "" THEN "platform_manifest" ELSE "encrypted_ppid"

\* C37: fetchPckCertInfo called for a platform without encrypted PPID and
\* without manifest returns the invalid-request error and sends nothing to
\* the PCS; for a platform with a manifest it asks /pckcerts by the
\* manifest, also when the encrypted PPID is there too.  The calls: the
\* push of a valid body of a platform not yet stored, the first row of a
\* refresh walk, and the next row after a row was stored.
C37_PpidOrManifestRequired ==
    [][\A p \in Procs :
         /\ \A body \in Bodies \cup {BothBody(q) : q \in QeIds} :
               (pushPlatformInfo(p, body) /\ pushValid(body) /\ platform[body.qe_id.txt] = NoRow)
                  => fetchCalled(p, PlatformOf(body))
         /\ (refreshPckCerts(p) /\ \E q \in QeIds : platform[q] # NoRow)
               => \E q \in QeIds : platform[q] # NoRow /\ fetchCalled(p, platform[q])
         /\ (/\ pc[p] = "cachePckCertInfo" /\ pc'[p] # pc[p]
             /\ loc[p].op # "push" /\ Len(loc[p].walk) >= 2
             /\ err'[p] \notin {"storage", "conflict"})
               => fetchCalled(p, loc[p].walk[2])
         /\ (pc'[p] = "pckcerts" /\ pc[p] # "pckcerts")
               => /\ ~BothEmpty(loc'[p].platformInfo)
                  /\ fetchCalled(p, loc'[p].platformInfo)]_vars
C37_Witness ==
    /\ platform["q1"] # NoRow /\ BothEmpty(platform["q1"]) /\ platform["q2"] = NoRow
    /\ pc[1] = "idle" /\ loc[1].op = "refresh"
    /\ err[1] = "invalid request" /\ called[1] = {}

\* C38: GET /tcbstatus is read-only: whatever it answers (200, 400, 404,
\* 500 or no answer), the step that answers leaves every table as it was,
\* records no repository write and calls no endpoint of the PCS.
C38_TcbStatusReadOnly ==
    [][tcbResp' # tcbResp =>
         /\ tcbResp'.code \in {StatusOK, StatusBadRequest, StatusNotFound,
                               StatusInternalServerError, 0}
         /\ UNCHANGED db
         /\ wrote' = wrote /\ called' = called]_vars
C38_Witness ==
    /\ tcbResp # NoRow /\ tcbResp.code = StatusOK
    /\ pckCert["q1"] # NoRow /\ platform["q1"] # NoRow /\ fmspcTcbInfo["f1"] # NoRow
    /\ platformTcb["q1"] = NoRow /\ \A p \in Procs : called[p] = {} /\ wrote[p] = {}

\* C39: GET /tcbstatus never reads out of range: for every stored PckCert
\* row, also one whose CertIndex is not below len(Tcbms) or whose selected
\* tcbm decodes to fewer than 18 bytes, the request ends with an HTTP
\* response (an error status for such a row) and not with a run-time panic.
C39_NoReadOutOfRange ==
    (tcbResp # NoRow) =>
        /\ tcbResp.Message # "panic"
        /\ tcbResp.code \in {StatusOK, StatusBadRequest, StatusNotFound, StatusInternalServerError}

\* C40: GetLazyCacheQEIdentityInfo reports a failed read-back: after a fetch
\* and a store without error, a RetrieveAll that fails or hands back no
\* row makes the function return a non-nil error, without a panic; and the
\* function never returns nil rows together with a nil error.
C40_ReadBackReported ==
    (qeOut # NoRow) =>
        /\ (/\ qeIn.fetchErr = "" /\ qeIn.cacheErr = ""
            /\ (qeIn.err # "" \/ qeIn.existingQeInfo.nil \/ qeIn.existingQeInfo.rows = <<>>))
              => (qeOut.err # "" /\ ~qeOut.panic)
        /\ ~(qeOut.result.nil /\ qeOut.err = "")

====
